---- MODULE Spec2Model ----
(***************************************************************************)
(* Matterhorn AH (src/src/main.rs): the tiling compositor, the render      *)
(* backends, the video export loop, the animation clock and the keyframe   *)
(* tracks, as state machines; the functions of the animation, the palette  *)
(* normalisation and the per-pixel iteration, as calls on bounded inputs.  *)
(*                                                                         *)
(* Numbers.  The program computes in f32; the model computes in exact      *)
(* arithmetic.  A time is an integer number of ticks of 5e-5 s, so that    *)
(* the key epsilon 1e-4 of Keyframes::upsert is KeyEps = 2 ticks.          *)
(* A pixel of the RGBA8 buffers stands for its 4 bytes: every byte offset  *)
(* and length the code computes is a multiple of 4 and is kept in bytes.   *)
(***************************************************************************)
EXTENDS Integers, Sequences, FiniteSets, TLC

VARIABLES
    \* ---- render_image (one call) ----
    r_pc,        \* "idle" | "tiles" | "done": position in render_image
    r_size,      \* <<width, height>>: the size argument
    r_override,  \* tile_override argument
    r_backend,   \* "Cpu" | "Gpu": the backend argument
    r_gpu,       \* "Some" | "None": the gpu: Option<&mut GpuRenderer> argument
    r_tiles,     \* the Vec<TileInfo> returned by tile_iterator
    r_next,      \* index (1-based) of the next tile of the for loop
    r_frame,     \* the frame buffer, one element per pixel (4 bytes), held as
                 \* fixed-size pages of the flat vector (see Pages)
    r_log,       \* per tile rendered: how render_tile produced it
    \* ---- export_video_blocking (one call) ----
    e_pc,        \* "idle" | "frames" | "returned"
    e_proj,      \* the proj: &Project argument
    e_total,     \* total, the number of frames of the for loop
    e_frame,     \* frame, the loop index
    e_rendered,  \* the render_image calls made: frame, time, camera, phase
    e_written,   \* the names of the frame images saved, in order
    e_failed,    \* the frames whose img.save returned an error
    e_encoder,   \* the ffmpeg invocations made, each with its outcome
    e_result,    \* "none" | "Ok" | "Io" | "Image" | "Ffmpeg": the value returned
    \* ---- MatterhornApp (the live application) ----
    a_proj,      \* self.proj
    a_gpu,       \* "Some" | "None": self.gpu
    a_render,    \* <<>>, or <<the arguments of the last render_image call>>
    a_event,     \* the user input of the last update
    a_proj0,     \* history: the project when the clock was last set
    a_elapsed,   \* history: the time the clock was advanced by since then
    a_init_failed, \* history: GpuRenderer::new has returned Err in this session
    \* ---- one call of a function of the program ----
    f_pc,        \* "idle" | "loop" | "returned"
    f_in,        \* the function called (fn) and its arguments
    f_out        \* the value returned

renderVars == <<r_pc, r_size, r_override, r_backend, r_gpu, r_tiles, r_next,
                r_frame, r_log>>

exportVars == <<e_pc, e_proj, e_total, e_frame, e_rendered, e_written, e_failed,
                e_encoder, e_result>>

appVars == <<a_proj, a_gpu, a_render, a_event, a_proj0, a_elapsed,
             a_init_failed>>

callVars == <<f_pc, f_in, f_out>>

vars == <<renderVars, exportVars, appVars, callVars>>

notRenderVars == <<exportVars, appVars, callVars>>
notExportVars == <<renderVars, appVars, callVars>>
notAppVars == <<renderVars, exportVars, callVars>>
notCallVars == <<renderVars, exportVars, appVars>>

Min(a, b) == IF a <= b THEN a ELSE b
Max(a, b) == IF a >= b THEN a ELSE b

Abs(a) == IF a < 0 THEN -a ELSE a

(***************************************************************************)
(* Numbers: an f32 value is an exact rational <<n, d>>, d > 0, in lowest   *)
(* terms.  A camera scale carries, besides, the power of the endless-zoom  *)
(* factor it was multiplied by (see ValueAt).                              *)
(***************************************************************************)

RECURSIVE Gcd(_, _)
Gcd(a, b) == IF b = 0 THEN a ELSE Gcd(b, a % b)

Rat(n, d) ==
    LET g == Gcd(Abs(n), Abs(d))
        sg == IF d < 0 THEN -1 ELSE 1
    IN <<(sg * n) \div g, (sg * d) \div g>>

RInt(k) == <<k, 1>>
RAdd(a, b) == Rat(a[1] * b[2] + b[1] * a[2], a[2] * b[2])
RSub(a, b) == Rat(a[1] * b[2] - b[1] * a[2], a[2] * b[2])
RMul(a, b) == Rat(a[1] * b[1], a[2] * b[2])
RLess(a, b) == a[1] * b[2] < b[1] * a[2]
RLeq(a, b) == a[1] * b[2] <= b[1] * a[2]
RMax(a, b) == IF RLess(a, b) THEN b ELSE a
RMin(a, b) == IF RLess(b, a) THEN b ELSE a
RClamp(a, lo, hi) == RMax(lo, RMin(a, hi))
ROne == <<1, 1>>
RZero == <<0, 1>>

\* Keyframes::upsert, Keyframes::sample: the epsilon 1e-4 s, in ticks
KeyEps == 2
TicksPerSecond == 10000 * KeyEps

\* EndlessZoom::value_at: speed.clamp(0.5, 0.995), in thousandths
SpeedMin == 500
SpeedMax == 995
\* EndlessZoom::with_defaults: speed 0.9, in thousandths
DefaultSpeed == 900
\* a factor of 1.0, in thousandths
SpeedOne == 1000

\* A number q * F^(e / TicksPerSecond): q a rational, F = f / 1000 an
\* endless-zoom factor.  A plain f32 value has e = 0 (and f = SpeedOne).
Num(q) == [q |-> q, f |-> SpeedOne, e |-> 0]
NumInt(k) == Num(RInt(k))

\* v * (f / 1000)^(k / TicksPerSecond).  One behaviour uses one factor: the
\* stored speed never changes after Init.
MulPow(v, f, k) ==
    IF v.e + k = 0 THEN Num(v.q)
    ELSE [q |-> v.q, f |-> f, e |-> v.e + k]

\* scale.max(0.0001): the powers explored stay above 1e-4, so only a plain
\* value can be raised
MaxScaleFloor(v) == IF v.e = 0 THEN Num(RMax(v.q, <<1, 10000>>)) ELSE v

\* Interp::lerp for f32: a + (b - a) * u, on numbers with the same power of F
\* (u = 0 and u = 1 are exact whatever the powers)
Lerp(a, b, u) ==
    IF u = RZero THEN a
    ELSE IF u = ROne THEN b
    ELSE [q |-> RAdd(a.q, RMul(RSub(b.q, a.q), u)), f |-> a.f, e |-> a.e]

(***************************************************************************)
(* Animation: Easing, Keyframes, EndlessZoom, Animation                    *)
(***************************************************************************)

Easings == {"Linear", "EaseIn", "EaseOut", "EaseInOut", "SmoothStep"}
Tracks == {"Zoom", "Palette", "CenterX", "CenterY"}

MutEasingApply(easing, t) ==
    CASE easing = "Linear" -> t
      [] easing = "EaseIn" -> RMul(t, t)
      [] easing = "EaseOut" -> RSub(ROne, RMul(RSub(ROne, t), RSub(ROne, t)))
      [] easing = "EaseInOut" ->
            IF RLess(t, <<1, 2>>)
            THEN RMul(RInt(2), RMul(t, t))
            ELSE LET w == RAdd(RMul(RInt(-2), t), RInt(2)) IN
                 RSub(ROne, RMul(w, w))
      [] easing = "SmoothStep" ->
            RMul(RMul(t, t), RSub(RInt(3), RMul(RInt(2), t)))

\* Easing::apply
EasingApply(easing, t) ==
    CASE easing = "Linear" -> t
      [] easing = "EaseIn" -> RMul(t, t)
      [] easing = "EaseOut" -> RSub(ROne, RMul(RSub(ROne, t), RSub(ROne, t)))
      [] easing = "EaseInOut" ->
            IF RLess(t, <<1, 2>>)
            THEN RMul(RInt(2), RMul(t, t))
            ELSE LET w == RAdd(RMul(RInt(-2), t), RInt(2)) IN
                 RSub(ROne, RMul(RMul(w, w), <<1, 2>>))
      [] easing = "SmoothStep" ->
            RMul(RMul(t, t), RSub(RInt(3), RMul(RInt(2), t)))

\* Keyframes::sample: the for loop over keys[1..], from index i, prev = keys[i-1]
RECURSIVE SampleLoop(_, _, _)
SampleLoop(keys, i, t) ==
    IF i > Len(keys) THEN keys[Len(keys)].v
    ELSE IF t <= keys[i].t
         THEN LET prev == keys[i - 1]
                  k == keys[i]
                  denom == Max(k.t - prev.t, KeyEps)
                  u == RClamp(Rat(t - prev.t, denom), RZero, ROne)
              IN Lerp(prev.v, k.v, EasingApply(prev.easing, u))
         ELSE SampleLoop(keys, i + 1, t)

\* Keyframes::sample
KfSample(keys, t, default) ==
    IF Len(keys) = 0 THEN default
    ELSE IF Len(keys) = 1 THEN keys[1].v
    ELSE SampleLoop(keys, 2, t)

\* slice::sort_by on the key times: a stable sort (insertion of each key after
\* the keys that do not come later)
RECURSIVE SortByT(_)
SortByT(keys) ==
    IF Len(keys) <= 1 THEN keys
    ELSE LET init == SortByT(SubSeq(keys, 1, Len(keys) - 1))
             last == keys[Len(keys)]
             n == Cardinality({i \in 1..Len(init) : init[i].t <= last.t})
         IN SubSeq(init, 1, n) \o <<last>> \o SubSeq(init, n + 1, Len(init))

\* Keyframes::upsert: the first key within the epsilon, or 0
FindExisting(keys, t) ==
    LET hits == {i \in 1..Len(keys) : Abs(keys[i].t - t) < KeyEps} IN
    IF hits = {} THEN 0 ELSE CHOOSE i \in hits : \A j \in hits : i <= j

MutUpsert(keys, t, v) ==
    LET i == FindExisting(keys, t) IN
    IF i # 0 THEN [keys EXCEPT ![i] = [t |-> t, v |-> v, easing |-> "Linear"]]
    ELSE SortByT(Append(keys, [t |-> t, v |-> v, easing |-> "Linear"]))

\* Keyframes::upsert
Upsert(keys, t, v) ==
    LET i == FindExisting(keys, t) IN
    IF i # 0 THEN [keys EXCEPT ![i].v = v]
    ELSE SortByT(Append(keys, [t |-> t, v |-> v, easing |-> "Linear"]))

\* Keyframes::clamp_all (duration >= 0: f32::clamp panics on a negative one)
ClampAll(keys, duration) ==
    [i \in 1..Len(keys) |-> [keys[i] EXCEPT !.t = Max(0, Min(keys[i].t, duration))]]

MutClampSpeed(speed) == speed

\* EndlessZoom::value_at: the clamped speed
ClampSpeed(speed) == Max(SpeedMin, Min(speed, SpeedMax))

\* EndlessZoom::value_at: start_scale * factor.powf(t.max(0.0)), the factor
\* being the clamped speed or, reversed, its reciprocal
ValueAt(zoom, t) ==
    MulPow(zoom.start_scale, ClampSpeed(zoom.speed),
           IF zoom.reverse THEN -Max(t, 0) ELSE Max(t, 0))

\* EndlessZoom::with_defaults
WithDefaults(scale) ==
    [start_scale |-> MaxScaleFloor(scale), speed |-> DefaultSpeed,
     reverse |-> FALSE, lock_repeating_spot |-> FALSE]

MutAdvance(a, dt) ==
    IF ~a.playing THEN a
    ELSE LET t1 == a.t + dt IN
         IF a.duration > 0 /\ t1 >= a.duration
         THEN IF a.looping
              THEN [a EXCEPT !.t = t1 - a.duration]
              ELSE [a EXCEPT !.t = a.duration, !.playing = FALSE]
         ELSE [a EXCEPT !.t = t1]

\* Animation::advance
Advance(a, dt) ==
    IF ~a.playing THEN a
    ELSE LET t1 == a.t + dt IN
         IF a.duration > 0 /\ t1 >= a.duration
         THEN IF a.looping
              THEN [a EXCEPT !.t = t1 % a.duration]
              ELSE [a EXCEPT !.t = a.duration, !.playing = FALSE]
         ELSE [a EXCEPT !.t = t1]

\* Animation::sample_zoom; zoom_forever is <<>> (None) or <<zoom>> (Some)
SampleZoom(a, t, default) ==
    IF a.zoom_forever # <<>> THEN ValueAt(a.zoom_forever[1], t)
    ELSE KfSample(a.kf["Zoom"], t, default)

MutResolveTimes(a, absolute_time) ==
    IF a.duration <= 0
    THEN <<0, IF a.zoom_forever # <<>> THEN absolute_time ELSE 0>>
    ELSE LET key_time == IF a.looping THEN absolute_time % a.duration
                         ELSE Min(absolute_time, a.duration)
         IN <<key_time, key_time>>

\* Animation::resolve_times: <<key_time, zoom_time>> (absolute_time >= 0: the
\* remainder of a negative time is not modelled)
ResolveTimes(a, absolute_time) ==
    IF a.duration <= 0
    THEN <<0, IF a.zoom_forever # <<>> THEN absolute_time ELSE 0>>
    ELSE LET key_time == IF a.looping THEN absolute_time % a.duration
                         ELSE Min(absolute_time, a.duration)
         IN <<key_time, IF a.zoom_forever # <<>> THEN absolute_time ELSE key_time>>

\* Animation::current_times
CurrentTimes(a) == ResolveTimes(a, a.t)

\* Animation::timeline_time
TimelineTime(a) == ResolveTimes(a, a.t)[1]

\* Animation::set_timeline_time
SetTimelineTime(a, timeline_time) ==
    IF a.duration <= 0 THEN [a EXCEPT !.t = Max(timeline_time, 0)]
    ELSE [a EXCEPT !.t = Max(0, Min(timeline_time, a.duration))]

\* Animation::is_repeating_spot_locked
IsRepeatingSpotLocked(a) ==
    a.zoom_forever # <<>> /\ a.zoom_forever[1].lock_repeating_spot

\* Animation::apply_endless_zoom_preset
ApplyEndlessZoomPreset(a, start_scale) ==
    [a EXCEPT !.zoom_forever = <<WithDefaults(start_scale)>>,
              !.kf["Zoom"] = <<>>,
              !.playing = TRUE, !.looping = TRUE, !.t = 0]

\* SEAHORSE_REPEAT_SPOT: center (-0.7436439, 0.13182591), rotation 0,
\* start_scale 3200
SpotCenterRe == Num(Rat(-7436439, 10000000))
SpotCenterIm == Num(Rat(13182591, 100000000))
SpotRotation == NumInt(0)
SpotStartScale == NumInt(3200)

\* enforce_repeating_spot
EnforceRepeatingSpot(camera) ==
    [camera EXCEPT !.center_re = SpotCenterRe, !.center_im = SpotCenterIm,
                   !.rotation = SpotRotation]

\* snap_camera_to_repeating_spot: <<camera, zoom>>
SnapCameraToRepeatingSpot(camera, zoom) ==
    LET c == [EnforceRepeatingSpot(camera) EXCEPT !.scale = SpotStartScale] IN
    <<c, [zoom EXCEPT !.start_scale = MaxScaleFloor(c.scale)]>>

(***************************************************************************)
(* Tiling: TileInfo, tile_iterator                                         *)
(***************************************************************************)

\* tile_iterator: a zero tile size means one tile when both sides are <= 8192
SingleTileMax == 8192
\* tile_iterator: the tile size a zero request falls back to on a large frame
DefaultTile == 4096
\* tile_iterator: stride = tile.max(256)
MinStride == 256
\* RGBA8: bytes per pixel, the factor 4 of render_image and blit_tile
BytesPerPixel == 4

TileFull(width, height) ==
    [full_w |-> width, full_h |-> height, offset_x |-> 0, offset_y |-> 0,
     tile_w |-> width, tile_h |-> height]

MutTileExtent(stride, remaining) == stride

\* tile_iterator: w = stride.min(width - x), h = stride.min(height - y)
TileExtent(stride, remaining) == Min(stride, remaining)

\* the inner loop of tile_iterator: while x < width { push; x += stride }
RECURSIVE TileRowLoop(_, _, _, _, _)
TileRowLoop(width, height, stride, y, x) ==
    IF x < width
    THEN <<[full_w |-> width, full_h |-> height, offset_x |-> x, offset_y |-> y,
            tile_w |-> TileExtent(stride, width - x),
            tile_h |-> TileExtent(stride, height - y)]>>
         \o TileRowLoop(width, height, stride, y, x + stride)
    ELSE <<>>

\* the outer loop of tile_iterator: while y < height { row; y += stride }
RECURSIVE TileGridLoop(_, _, _, _)
TileGridLoop(width, height, stride, y) ==
    IF y < height
    THEN TileRowLoop(width, height, stride, y, 0)
         \o TileGridLoop(width, height, stride, y + stride)
    ELSE <<>>

\* tile_iterator: let stride = tile.max(256)
Stride(tile) == Max(tile, MinStride)

tile_iterator(width, height, tile0) ==
    IF tile0 = 0 /\ width <= SingleTileMax /\ height <= SingleTileMax
    THEN <<TileFull(width, height)>>
    ELSE LET tile == IF tile0 = 0 THEN DefaultTile ELSE tile0 IN
         IF width <= tile /\ height <= tile
         THEN <<TileFull(width, height)>>
         ELSE TileGridLoop(width, height, Stride(tile), 0)

(***************************************************************************)
(* Backends: render_fractal_cpu, GpuRenderer::render, render_tile          *)
(***************************************************************************)

\* The plane coordinate of a pixel before rotation and scale, doubled to stay
\* integral: u = global_x - full_w / 2, v = global_y - full_h / 2.  Everything
\* the pixel loop computes after it (rx, ry, the iteration, the shading) reads
\* only u, v, the parameters, the camera and the LUT.
MutPlaneCoord(tile, x, y) ==
    <<2 * (tile.offset_x + x) - tile.tile_w, 2 * (tile.offset_y + y) - tile.tile_h>>

PlaneCoord(tile, x, y) ==
    <<2 * (tile.offset_x + x) - tile.full_w, 2 * (tile.offset_y + y) - tile.full_h>>

\* render_fractal_cpu: a row-major buffer of tile_w * tile_h pixels
render_fractal_cpu(tile) ==
    [i \in 1..(tile.tile_w * tile.tile_h) |->
        [uv |-> PlaneCoord(tile, (i - 1) % tile.tile_w, (i - 1) \div tile.tile_w),
         by |-> "cpu"]]

\* GpuRenderer::render returning Ok(pixels): the shader's pixel program on the
\* same uniforms (full, offset, tile); its bytes need not equal the CPU's
gpu_render_ok(tile) ==
    [i \in 1..(tile.tile_w * tile.tile_h) |->
        [uv |-> PlaneCoord(tile, (i - 1) % tile.tile_w, (i - 1) \div tile.tile_w),
         by |-> "gpu"]]

\* The way render_tile produces a tile: gpu_ok is the outcome of
\* renderer.render, read only when the backend is Gpu and a renderer is given
TilePath(backend, gpu, gpu_ok) ==
    IF backend = "Cpu" THEN "cpu"
    ELSE IF gpu = "Some"
         THEN IF gpu_ok THEN "gpu" ELSE "gpu_err_cpu"
         ELSE "no_gpu_cpu"

MutRenderTile(tile, backend, gpu, gpu_ok) ==
    IF TilePath(backend, gpu, gpu_ok) = "gpu_err_cpu"
    THEN [i \in 1..(tile.tile_w * tile.tile_h) |-> [uv |-> <<0, 0>>, by |-> "none"]]
    ELSE IF TilePath(backend, gpu, gpu_ok) = "gpu"
         THEN gpu_render_ok(tile) ELSE render_fractal_cpu(tile)

render_tile(tile, backend, gpu, gpu_ok) ==
    IF TilePath(backend, gpu, gpu_ok) = "gpu"
    THEN gpu_render_ok(tile)
    ELSE render_fractal_cpu(tile)

(***************************************************************************)
(* Compositing: blit_tile, render_image                                    *)
(***************************************************************************)

MutDstOffset(full_width, tile, ty) ==
    (ty * full_width + tile.offset_x) * BytesPerPixel

\* blit_tile: dst_offset of tile row ty, in bytes
DstOffset(full_width, tile, ty) ==
    ((tile.offset_y + ty) * full_width + tile.offset_x) * BytesPerPixel

\* blit_tile: one iteration of the for loop, the copy_from_slice of tile row ty
BlitRow(target, full_width, tile, tile_pixels, ty) ==
    LET dst_offset == DstOffset(full_width, tile, ty)
        src_offset == (ty * tile.tile_w) * BytesPerPixel
        len == tile.tile_w * BytesPerPixel
        row == SubSeq(tile_pixels, src_offset \div BytesPerPixel + 1,
                      (src_offset + len) \div BytesPerPixel)
    IN SubSeq(target, 1, dst_offset \div BytesPerPixel) \o row \o
       SubSeq(target, (dst_offset + len) \div BytesPerPixel + 1, Len(target))

\* blit_tile: the iterations ty = lo..hi-1 of the for loop, in order (the range
\* is halved only to keep the evaluation shallow; the copies are the loop's)
RECURSIVE BlitRows(_, _, _, _, _, _)
BlitRows(target, full_width, tile, tile_pixels, lo, hi) ==
    IF lo >= hi THEN target
    ELSE IF hi = lo + 1 THEN BlitRow(target, full_width, tile, tile_pixels, lo)
    ELSE LET mid == (lo + hi) \div 2
             first == BlitRows(target, full_width, tile, tile_pixels, lo, mid)
         IN IF Len(first) >= 0
            THEN BlitRows(first, full_width, tile, tile_pixels, mid, hi)
            ELSE first

blit_tile(target, full_width, tile, tile_pixels) ==
    BlitRows(target, full_width, tile, tile_pixels, 0, tile.tile_h)

\* vec![0u8; (size.0 * size.1 * 4) as usize]: a zeroed pixel is "zero"
ZeroPixel == [uv |-> <<0, 0>>, by |-> "zero"]

ZeroFrame(width, height) ==
    [i \in 1..((width * height * BytesPerPixel) \div BytesPerPixel) |-> ZeroPixel]

\* ---- inputs of the render specification ----
\* The flat frame vector is kept in the state as consecutive pages of PageSize
\* elements (the last one shorter); Flat(Pages(v)) = v.  Offsets are always
\* computed on the flat vector, as the code computes them.
PageSize == MinStride
Pages(flat) ==
    [p \in 1..((Len(flat) + PageSize - 1) \div PageSize) |->
        [i \in 1..Min(PageSize, Len(flat) - (p - 1) * PageSize) |->
            flat[(p - 1) * PageSize + i]]]
Flat(pages) ==
    IF pages = <<>> THEN <<>>
    ELSE [i \in 1..((Len(pages) - 1) * PageSize + Len(pages[Len(pages)])) |->
            pages[((i - 1) \div PageSize) + 1][((i - 1) % PageSize) + 1]]

FrameSizes == {<<3, 2>>, <<300, 2>>, <<2, 300>>, <<257, 1>>, <<600, 1>>,
               <<257, 258>>}
TileSizes(size) == {0, 64, 257, Min(size[1], size[2])}
\* a frame wider than SingleTileMax, with the tile sizes that keep its plan short
WideFrames == {<<8193, 1>>}
WideTileSizes == {0, 5000, 8192}

RenderInit ==
    /\ r_pc = "idle"
    /\ \/ r_size \in FrameSizes /\ r_override \in TileSizes(r_size)
       \/ r_size \in WideFrames /\ r_override \in WideTileSizes
    /\ r_backend \in {"Cpu", "Gpu"}
    /\ r_gpu \in {"Some", "None"}
    /\ r_tiles = <<>>
    /\ r_next = 1
    /\ r_frame = <<>>
    /\ r_log = <<>>

\* render_image up to the for loop: the tile plan and the zeroed frame
RenderImageBegin ==
    /\ r_pc = "idle"
    /\ r_tiles' = tile_iterator(r_size[1], r_size[2], r_override)
    /\ r_frame' = Pages(ZeroFrame(r_size[1], r_size[2]))
    /\ r_next' = 1
    /\ r_pc' = "tiles"
    /\ UNCHANGED <<r_size, r_override, r_backend, r_gpu, r_log>>
    /\ UNCHANGED notRenderVars

\* one iteration of the for loop: render_tile, then blit_tile
RenderTileStep ==
    /\ r_pc = "tiles"
    /\ r_next <= Len(r_tiles)
    /\ \E gpu_ok \in BOOLEAN :
        LET tile == r_tiles[r_next]
            tile_pixels == render_tile(tile, r_backend, r_gpu, gpu_ok)
        IN /\ r_frame' = Pages(blit_tile(Flat(r_frame), r_size[1], tile, tile_pixels))
           /\ r_log' = Append(r_log, TilePath(r_backend, r_gpu, gpu_ok))
    /\ r_next' = r_next + 1
    /\ UNCHANGED <<r_pc, r_size, r_override, r_backend, r_gpu, r_tiles>>
    /\ UNCHANGED notRenderVars

\* the loop is over: render_image returns the frame
RenderImageReturn ==
    /\ r_pc = "tiles"
    /\ r_next > Len(r_tiles)
    /\ r_pc' = "done"
    /\ UNCHANGED <<r_size, r_override, r_backend, r_gpu, r_tiles, r_next,
                   r_frame, r_log>>
    /\ UNCHANGED notRenderVars

RenderIdle ==
    /\ r_pc = "idle"
    /\ r_size = <<1, 1>>
    /\ r_override = 0
    /\ r_backend = "Cpu"
    /\ r_gpu = "None"
    /\ r_tiles = <<>>
    /\ r_next = 1
    /\ r_frame = <<>>
    /\ r_log = <<>>

RenderNext == RenderImageBegin \/ RenderTileStep \/ RenderImageReturn

(***************************************************************************)
(* Project defaults                                                        *)
(***************************************************************************)

\* Camera::default
DefaultCamera ==
    [center_re |-> Num(Rat(-1, 2)), center_im |-> NumInt(0),
     scale |-> NumInt(300), rotation |-> NumInt(0)]

NoKeys == [tr \in Tracks |-> <<>>]

\* Animation::default: 30 fps, 5 seconds, stopped, not looping
DefaultAnimation ==
    [fps |-> 30, duration |-> 5 * TicksPerSecond, playing |-> FALSE,
     looping |-> FALSE, t |-> 0, kf |-> NoKeys, selection |-> <<>>,
     zoom_forever |-> <<>>]

\* ExportSettings::default: 1920 x 1080, 30 fps, 5 seconds, tiles of 2048
DefaultExport ==
    [width |-> 1920, height |-> 1080, fps |-> 30,
     duration |-> 5 * TicksPerSecond, tile_size |-> 2048]

\* Project::default (FractalParams: only the animated palette_phase)
DefaultProject ==
    [camera |-> DefaultCamera, palette_phase |-> NumInt(0),
     anim |-> DefaultAnimation, export |-> DefaultExport,
     render_backend |-> "Cpu"]

Key(t, v, easing) == [t |-> t, v |-> v, easing |-> easing]

(***************************************************************************)
(* Export: export_video_blocking                                           *)
(***************************************************************************)

MutExportTotal(duration, fps) ==
    IF duration * fps <= 0 THEN 0
    ELSE (duration * fps) \div TicksPerSecond + 1

\* total = (duration * fps as f32).round() as u32: f32::round rounds halves
\* away from zero, and the cast of a negative value saturates at 0
ExportTotal(duration, fps) ==
    IF duration * fps <= 0 THEN 0
    ELSE (2 * duration * fps + TicksPerSecond) \div (2 * TicksPerSecond)

\* time = frame as f32 / fps as f32, in ticks (the frame rates of the model
\* divide TicksPerSecond)
FrameTime(frame, fps) == (frame * TicksPerSecond) \div fps

MutExportSnapshot(proj, time) ==
    LET anim == Advance(proj.anim, time)
        times == CurrentTimes(anim)
        key_t == times[1]
        zoom_t == times[2]
    IN [proj EXCEPT
          !.anim = anim,
          !.camera.scale = SampleZoom(anim, zoom_t, proj.camera.scale),
          !.palette_phase = KfSample(anim.kf["Palette"], key_t, proj.palette_phase),
          !.camera.center_re = KfSample(anim.kf["CenterX"], key_t, proj.camera.center_re),
          !.camera.center_im = KfSample(anim.kf["CenterY"], key_t, proj.camera.center_im)]

\* the body of the frame loop up to render_image: the clone of the project with
\* the animated values sampled at time
ExportSnapshot(proj, time) ==
    LET times == ResolveTimes(proj.anim, time)
        key_t == times[1]
        zoom_t == times[2]
    IN [proj EXCEPT
          !.camera.scale = SampleZoom(proj.anim, zoom_t, proj.camera.scale),
          !.palette_phase = KfSample(proj.anim.kf["Palette"], key_t, proj.palette_phase),
          !.camera.center_re = KfSample(proj.anim.kf["CenterX"], key_t, proj.camera.center_re),
          !.camera.center_im = KfSample(proj.anim.kf["CenterY"], key_t, proj.camera.center_im)]

\* the decimal digits of n, most significant first
RECURSIVE Digits(_)
Digits(n) == IF n < 10 THEN <<n>> ELSE Digits(n \div 10) \o <<n % 10>>

\* {:06}: zero-padded on the left to at least 6 digits
RECURSIVE PadZero(_, _)
PadZero(ds, width) == IF Len(ds) >= width THEN ds ELSE PadZero(<<0>> \o ds, width)

\* the width of the frame index in the file name and in the ffmpeg pattern
FrameDigits == 6

\* format!("frame_{:06}.png", frame)
FrameFileName(frame) == <<"frame_", PadZero(Digits(frame), FrameDigits), ".png">>

MutSaveOutcome(save_ok) == "continue"

\* img.save(&path)?: an error returns from the function as ExportError::Image
SaveOutcome(save_ok) == IF save_ok THEN "continue" ELSE "Image"

MutEncodeResult(status) == IF status = "spawn_failed" THEN "Ffmpeg" ELSE "Ok"

\* matches!(status, Ok(st) if st.success()): Ok(()) or Err(ExportError::Ffmpeg)
EncodeResult(status) == IF status = "exit_success" THEN "Ok" ELSE "Ffmpeg"

EncoderStatuses == {"spawn_failed", "exit_nonzero", "exit_success"}

\* ---- inputs of the export specification ----
ExportDurations == {0, TicksPerSecond \div 10, TicksPerSecond,
                    (21 * TicksPerSecond) \div 20}
ExportRates == {2, 10}

LoopingZoomAnimation ==
    [DefaultAnimation EXCEPT
        !.duration = TicksPerSecond \div 2, !.looping = TRUE,
        !.zoom_forever = <<WithDefaults(NumInt(300))>>,
        !.kf["Palette"] = <<Key(0, NumInt(0), "Linear"),
                            Key(TicksPerSecond \div 2, NumInt(1), "EaseIn")>>]

\* the animation after Add key at 0 on the default camera, Preset: Endless
\* Zoom and the repeating-spot lock
LockedZoomAnimation ==
    [DefaultAnimation EXCEPT
        !.duration = TicksPerSecond \div 2, !.looping = TRUE, !.playing = TRUE,
        !.zoom_forever =
            <<[WithDefaults(SpotStartScale) EXCEPT !.lock_repeating_spot = TRUE]>>,
        !.kf["Palette"] = <<Key(0, NumInt(0), "Linear")>>,
        !.kf["CenterX"] = <<Key(0, DefaultCamera.center_re, "Linear")>>,
        !.kf["CenterY"] = <<Key(0, DefaultCamera.center_im, "Linear")>>]

\* the looping animation while it plays, its clock at 0.25 s
PlayingZoomAnimation ==
    [LoopingZoomAnimation EXCEPT !.playing = TRUE, !.t = TicksPerSecond \div 4]

ExportAnimations == {DefaultAnimation, LoopingZoomAnimation, LockedZoomAnimation,
                     PlayingZoomAnimation}

ExportProjects ==
    {[DefaultProject EXCEPT !.anim = a, !.export.duration = d, !.export.fps = r,
                            !.render_backend = b] :
        a \in ExportAnimations, d \in ExportDurations, r \in ExportRates,
        b \in {"Cpu"}}

ExportIdle ==
    /\ e_pc = "idle"
    /\ e_proj = DefaultProject
    /\ e_total = 0
    /\ e_frame = 0
    /\ e_rendered = <<>>
    /\ e_written = <<>>
    /\ e_failed = {}
    /\ e_encoder = <<>>
    /\ e_result = "none"

ExportInit ==
    /\ e_pc = "idle"
    /\ e_proj \in ExportProjects
    /\ e_total = 0
    /\ e_frame = 0
    /\ e_rendered = <<>>
    /\ e_written = <<>>
    /\ e_failed = {}
    /\ e_encoder = <<>>
    /\ e_result = "none"

\* tempfile::tempdir()? and the computation of total
ExportBegin ==
    /\ e_pc = "idle"
    /\ \E tempdir_ok \in BOOLEAN :
         IF tempdir_ok
         THEN /\ e_pc' = "frames"
              /\ e_total' = ExportTotal(e_proj.export.duration, e_proj.export.fps)
              /\ e_result' = "none"
         ELSE /\ e_pc' = "returned"
              /\ e_total' = 0
              /\ e_result' = "Io"
    /\ e_frame' = 0
    /\ UNCHANGED <<e_proj, e_rendered, e_written, e_failed, e_encoder>>
    /\ UNCHANGED notExportVars

\* one iteration of `for frame in 0..total`: sample, render_image, img.save
ExportFrame ==
    /\ e_pc = "frames"
    /\ e_frame < e_total
    /\ \E save_ok \in BOOLEAN :
         LET time == FrameTime(e_frame, e_proj.export.fps)
             p == ExportSnapshot(e_proj, time)
             call == [frame |-> e_frame, time |-> time, camera |-> p.camera,
                      palette_phase |-> p.palette_phase,
                      size |-> <<e_proj.export.width, e_proj.export.height>>,
                      tile_override |-> e_proj.export.tile_size,
                      backend |-> e_proj.render_backend]
         IN /\ e_rendered' = Append(e_rendered, call)
            /\ e_written' = IF save_ok THEN Append(e_written, FrameFileName(e_frame))
                            ELSE e_written
            /\ e_failed' = IF save_ok THEN e_failed ELSE e_failed \cup {e_frame}
            /\ IF SaveOutcome(save_ok) = "continue"
               THEN /\ e_frame' = e_frame + 1
                    /\ UNCHANGED <<e_pc, e_result>>
               ELSE /\ e_pc' = "returned"
                    /\ e_result' = SaveOutcome(save_ok)
                    /\ UNCHANGED e_frame
    /\ UNCHANGED <<e_proj, e_total, e_encoder>>
    /\ UNCHANGED notExportVars

\* after the loop: Command::new("ffmpeg").args(args).status() and the result
ExportEncode ==
    /\ e_pc = "frames"
    /\ e_frame >= e_total
    /\ \E status \in EncoderStatuses :
         /\ e_encoder' = Append(e_encoder,
                [framerate |-> e_proj.export.fps, pattern_digits |-> FrameDigits,
                 inputs |-> e_written, status |-> status])
         /\ e_result' = EncodeResult(status)
    /\ e_pc' = "returned"
    /\ UNCHANGED <<e_proj, e_total, e_frame, e_rendered, e_written, e_failed>>
    /\ UNCHANGED notExportVars

ExportNext == ExportBegin \/ ExportFrame \/ ExportEncode

(***************************************************************************)
(* The live application: MatterhornApp::update, timeline_ui,               *)
(* track_timeline_row.  One update handles at most one user input.  The    *)
(* inputs that are not explored: the sliders of the left panel, the fps    *)
(* and speed sliders, the project dialogs and the Export Video button.     *)
(***************************************************************************)

\* a user input: kind, and what the kind needs of track, idx (1-based index of
\* a key of the track), rel (pointer position across the row, 0..1), val (a
\* duration) and name (an easing, a backend)
Event(kind, track, idx, rel, val, name) ==
    [kind |-> kind, track |-> track, idx |-> idx, rel |-> rel, val |-> val,
     name |-> name]

NoEvent == Event("none", "Zoom", 0, RZero, 0, "")

\* rel * duration
RelTime(rel, duration) == (rel[1] * duration) \div rel[2]

\* Vec::remove
RemoveAt(keys, i) == SubSeq(keys, 1, i - 1) \o SubSeq(keys, i + 1, Len(keys))

\* track_timeline_row: the easing a double click on a key moves to
NextEasing(easing) ==
    CASE easing = "Linear" -> "EaseIn"
      [] easing = "EaseIn" -> "EaseOut"
      [] easing = "EaseOut" -> "EaseInOut"
      [] easing = "EaseInOut" -> "SmoothStep"
      [] easing = "SmoothStep" -> "Linear"

\* SelectedKey, as Option: <<>> or <<[track, index]>>; index is 1-based here
Selected(track, idx) == <<[track |-> track, index |-> idx]>>

\* track_timeline_row on st = [time, selection, keys]: scrub, then the loop over
\* the keys (drag, click, double click, secondary click), then the removal,
\* then the insertion by a double click on the row
track_timeline_row(track, current_value, duration, st, ev) ==
    LET mine == ev.track = track
        on_row == mine /\ ev.kind \in {"row_click", "row_drag", "row_double"}
        on_key == mine /\ ev.idx \in 1..Len(st.keys)
        time1 == IF on_row /\ duration > 0 THEN RelTime(ev.rel, duration)
                 ELSE st.time
        keys1 == IF on_key /\ ev.kind = "key_drag"
                 THEN [st.keys EXCEPT ![ev.idx].t = RelTime(ev.rel, duration)]
                 ELSE IF on_key /\ ev.kind = "key_double"
                 THEN [st.keys EXCEPT ![ev.idx].easing = NextEasing(@)]
                 ELSE st.keys
        sel1 == IF on_key /\ ev.kind \in {"key_click", "key_double"}
                THEN Selected(track, ev.idx)
                ELSE st.selection
        remove == on_key /\ ev.kind = "key_secondary"
        keys2 == IF remove THEN RemoveAt(keys1, ev.idx) ELSE keys1
        sel2 == IF remove /\ sel1 = Selected(track, ev.idx) THEN <<>> ELSE sel1
        keys3 == IF mine /\ ev.kind = "row_double"
                 THEN Upsert(keys2, RelTime(ev.rel, duration), current_value)
                 ELSE keys2
    IN [time |-> time1, selection |-> sel2, keys |-> keys3]

\* timeline_ui: the first row of widgets (duration, clamp_all, loop, Add key)
TimelineHead(anim, camera, palette_phase, cursor, ev) ==
    LET a1 == IF ev.kind = "duration" THEN [anim EXCEPT !.duration = ev.val]
              ELSE anim
        a2 == [a1 EXCEPT !.kf = [tr \in Tracks |-> ClampAll(a1.kf[tr], a1.duration)]]
        a3 == IF ev.kind = "loop" THEN [a2 EXCEPT !.looping = ~@] ELSE a2
    IN IF ev.kind = "add_key"
       THEN [a3 EXCEPT
               !.kf["Zoom"] = Upsert(@, cursor, camera.scale),
               !.kf["Palette"] = Upsert(@, cursor, palette_phase),
               !.kf["CenterX"] = Upsert(@, cursor, camera.center_re),
               !.kf["CenterY"] = Upsert(@, cursor, camera.center_im)]
       ELSE a3

\* timeline_ui: the widgets shown while endless zoom is on, on
\* st = [anim, camera, cursor]
ZoomWidgets(st, ev) ==
    IF st.anim.zoom_forever = <<>> THEN st
    ELSE LET zoom == st.anim.zoom_forever[1]
             snap == SnapCameraToRepeatingSpot(st.camera, zoom)
         IN CASE ev.kind = "reverse" ->
                    [st EXCEPT !.anim.zoom_forever[1].reverse = ~@]
              [] ev.kind = "lock" ->
                    IF ~zoom.lock_repeating_spot
                    THEN [st EXCEPT
                            !.camera = snap[1],
                            !.anim.zoom_forever =
                                <<[snap[2] EXCEPT !.lock_repeating_spot = TRUE]>>,
                            !.cursor = 0]
                    ELSE [st EXCEPT
                            !.anim.zoom_forever[1].lock_repeating_spot = FALSE]
              [] ev.kind = "recenter" /\ zoom.lock_repeating_spot ->
                    [st EXCEPT !.camera = snap[1],
                               !.anim.zoom_forever = <<snap[2]>>,
                               !.cursor = 0]
              [] ev.kind = "rebase" ->
                    [st EXCEPT !.anim.zoom_forever[1].start_scale =
                                   MaxScaleFloor(st.camera.scale),
                               !.cursor = 0]
              [] ev.kind = "disable" ->
                    [st EXCEPT !.anim.zoom_forever = <<>>]
              [] OTHER -> st

\* timeline_ui: the endless-zoom row of widgets: the preset button, then the
\* widgets of the zoom
TimelineZoomRow(st, ev) ==
    ZoomWidgets(IF ev.kind = "preset"
                THEN [st EXCEPT !.anim = ApplyEndlessZoomPreset(@, st.camera.scale),
                                !.cursor = 0]
                ELSE st,
                ev)

\* what a call of track_timeline_row leaves in st = [anim, camera, cursor]: the
\* cursor, the selection and the keys of the track are passed by reference
RowResult(st, track, row) ==
    [st EXCEPT !.cursor = row.time, !.anim.selection = row.selection,
               !.anim.kf[track] = row.keys]

\* timeline_ui: one call of track_timeline_row
TimelineRow(track, current_value, st, ev) ==
    RowResult(st, track,
        track_timeline_row(track, current_value, st.anim.duration,
            [time |-> st.cursor, selection |-> st.anim.selection,
             keys |-> st.anim.kf[track]], ev))

\* timeline_ui: the four track rows, in the order Zoom, Palette, Center X,
\* Center Y
TimelineTrackRows(st, palette_phase, ev) ==
    TimelineRow("CenterY", st.camera.center_im,
        TimelineRow("CenterX", st.camera.center_re,
            TimelineRow("Palette", palette_phase,
                TimelineRow("Zoom", st.camera.scale, st, ev), ev), ev), ev)

MutTimelineSelection(anim, ev) ==
    IF anim.selection = <<>> THEN anim
    ELSE LET sel == anim.selection[1] IN
         IF sel.index \in 1..Len(anim.kf[sel.track])
         THEN IF ev.kind = "easing"
              THEN [anim EXCEPT !.kf[sel.track][sel.index].easing = ev.name]
              ELSE IF ev.kind = "delete_key"
              THEN [anim EXCEPT !.kf[sel.track] = RemoveAt(@, sel.index),
                                !.selection = <<>>]
              ELSE anim
         ELSE anim

\* timeline_ui: the editor of the selected key (easing choice, Delete key); a
\* selection whose index is past the end of its track is dropped
TimelineSelection(anim, ev) ==
    IF anim.selection = <<>> THEN anim
    ELSE LET sel == anim.selection[1] IN
         IF sel.index \in 1..Len(anim.kf[sel.track])
         THEN IF ev.kind = "easing"
              THEN [anim EXCEPT !.kf[sel.track][sel.index].easing = ev.name]
              ELSE IF ev.kind = "delete_key"
              THEN [anim EXCEPT !.kf[sel.track] = RemoveAt(@, sel.index),
                                !.selection = <<>>]
              ELSE anim
         ELSE [anim EXCEPT !.selection = <<>>]

\* timeline_ui: the clock follows a cursor that was moved, then the editor of
\* the selected key
TimelineTail(st, initial_cursor, ev) ==
    [anim |-> TimelineSelection(
                  IF st.cursor # initial_cursor
                  THEN SetTimelineTime(st.anim, st.cursor) ELSE st.anim, ev),
     camera |-> st.camera]

\* timeline_ui: [anim, camera] after the call
timeline_ui(anim, camera, palette_phase, ev) ==
    TimelineTail(
        TimelineTrackRows(
            TimelineZoomRow(
                [anim |-> TimelineHead(anim, camera, palette_phase,
                                       TimelineTime(anim), ev),
                 camera |-> camera, cursor |-> TimelineTime(anim)], ev),
            palette_phase, ev),
        TimelineTime(anim), ev)

\* MatterhornApp::update, top panel: Play/Pause, Restart
TopPanelClock(anim, ev) ==
    IF ev.kind = "play_pause" THEN [anim EXCEPT !.playing = ~@]
    ELSE IF ev.kind = "restart" THEN [anim EXCEPT !.t = 0]
    ELSE anim

\* MatterhornApp::update, top panel: the backend after the two selectable values
ChosenBackend(render_backend, ev) ==
    IF ev.kind = "backend" THEN ev.name ELSE render_backend

\* MatterhornApp::update, top panel: GpuRenderer::new is called in this frame
GpuInitAttempted(render_backend, gpu, ev) ==
    ChosenBackend(render_backend, ev) = "Gpu" /\ gpu = "None"

\* MatterhornApp::update, top panel: the backend choice and the creation of the
\* GPU renderer when the GPU backend has none: <<render_backend, gpu>>
TopPanelBackend(render_backend, gpu, ev, gpu_init_ok) ==
    IF GpuInitAttempted(render_backend, gpu, ev)
    THEN IF gpu_init_ok THEN <<"Gpu", "Some">> ELSE <<"Cpu", "None">>
    ELSE <<ChosenBackend(render_backend, ev), gpu>>

\* MatterhornApp::update, central panel: the animated values written into the
\* project before render_image: [camera, palette_phase]
LiveSample(proj, anim) ==
    LET times == CurrentTimes(anim)
        timeline_t == times[1]
        zoom_t == times[2]
        sampled ==
            [proj.camera EXCEPT
                !.scale = SampleZoom(anim, zoom_t, proj.camera.scale),
                !.center_re = KfSample(anim.kf["CenterX"], timeline_t, @),
                !.center_im = KfSample(anim.kf["CenterY"], timeline_t, @)]
    IN [camera |-> IF IsRepeatingSpotLocked(anim)
                   THEN EnforceRepeatingSpot(sampled) ELSE sampled,
        palette_phase |-> KfSample(anim.kf["Palette"], timeline_t,
                                   proj.palette_phase)]

\* MatterhornApp::update: the project, the renderer and the render_image call
\* of a frame, from its top panel (be), central panel (live) and timeline (ui)
UpdateResult(proj, be, live, ui) ==
    [proj |-> [proj EXCEPT !.anim = ui.anim, !.camera = ui.camera,
                           !.palette_phase = live.palette_phase,
                           !.render_backend = be[1]],
     gpu |-> be[2],
     render |-> [camera |-> live.camera, palette_phase |-> live.palette_phase,
                 backend |-> be[1], gpu |-> be[2], tile_override |-> 0]]

\* MatterhornApp::update from the central panel on, anim being the animation
\* the top panel left
UpdatePanels(proj, be, anim, live, ev) ==
    UpdateResult(proj, be, live,
                 timeline_ui(anim, live.camera, live.palette_phase, ev))

\* MatterhornApp::update on a project and a renderer: advance, the top panel,
\* the central panel, the timeline
update(proj, gpu, dt, ev, gpu_init_ok) ==
    UpdatePanels(proj, TopPanelBackend(proj.render_backend, gpu, ev, gpu_init_ok),
                 TopPanelClock(Advance(proj.anim, dt), ev),
                 LiveSample(proj, TopPanelClock(Advance(proj.anim, dt), ev)),
                 ev)

\* the events that leave the clock to advance and the animation as it is
ClockKeeping == {"none", "play_pause"}

\* the time Animation::advance moves the clock by: nothing when stopped, dt
\* when playing, or what is left of the timeline when it stops at its end
ClockAdvance(a, dt) ==
    IF ~a.playing THEN 0
    ELSE IF a.duration > 0 /\ a.t + dt >= a.duration /\ ~a.looping
         THEN a.duration - a.t
         ELSE dt

\* the state after a frame whose handler returned r; an input that sets the
\* clock or edits the project starts the history again
Updated(r, dt, ev) ==
    /\ a_proj' = r.proj
    /\ a_gpu' = r.gpu
    /\ a_render' = <<r.render>>
    /\ a_event' = ev
    /\ IF ev.kind \in ClockKeeping
       THEN /\ a_elapsed' = a_elapsed + ClockAdvance(a_proj.anim, dt)
            /\ a_proj0' = a_proj0
       ELSE /\ a_elapsed' = r.proj.anim.t
            /\ a_proj0' = r.proj
    /\ a_init_failed' =
          (a_init_failed
              \/ (GpuInitAttempted(a_proj.render_backend, a_gpu, ev)
                    /\ r.gpu = "None"))
    /\ UNCHANGED notAppVars

\* MatterhornApp::update: one frame of the application, dt after the last one
Update(dt, ev, gpu_init_ok) ==
    Updated(update(a_proj, a_gpu, dt, ev, gpu_init_ok), dt, ev)

\* the application when another specification runs
AppIdle ==
    /\ a_proj = DefaultProject
    /\ a_gpu = "None"
    /\ a_render = <<>>
    /\ a_event = NoEvent
    /\ a_proj0 = DefaultProject
    /\ a_elapsed = 0
    /\ a_init_failed = FALSE

\* ---- inputs of the playback specification ----
\* the seconds of playback explored from a clock at 0
MaxElapsed == 3
PlaybackDuration == TicksPerSecond
\* the time between two updates: 0.25 s or 0.375 s
PlaybackTicks == {TicksPerSecond \div 4, (3 * TicksPerSecond) \div 8}
PlaybackKinds == {"none", "play_pause", "restart"}

KeyedTracks ==
    [tr \in Tracks |->
        CASE tr = "Zoom" ->
                <<Key(0, NumInt(300), "Linear"),
                  Key(PlaybackDuration, NumInt(600), "Linear")>>
          [] tr = "Palette" ->
                <<Key(0, NumInt(0), "EaseIn"),
                  Key(PlaybackDuration, NumInt(1), "Linear")>>
          [] tr = "CenterX" ->
                <<Key(0, Num(Rat(-1, 2)), "SmoothStep"),
                  Key(PlaybackDuration \div 2, NumInt(0), "Linear")>>
          [] tr = "CenterY" -> <<>>]

\* a project playing its four tracks from 0
KeyedProject(looping) ==
    [DefaultProject EXCEPT
        !.anim.duration = PlaybackDuration, !.anim.playing = TRUE,
        !.anim.looping = looping, !.anim.kf = KeyedTracks]

\* a project after Preset: Endless Zoom and the widgets of its row: the loop
\* checkbox, the direction, the repeating-spot lock (which snaps the camera)
EndlessProject(looping, reverse, lock) ==
    LET p == [DefaultProject EXCEPT
                !.anim.duration = PlaybackDuration,
                !.anim.kf["Palette"] = KeyedTracks["Palette"]]
        a == [ApplyEndlessZoomPreset(p.anim, p.camera.scale) EXCEPT
                !.looping = looping, !.zoom_forever[1].reverse = reverse]
        snap == SnapCameraToRepeatingSpot(p.camera, a.zoom_forever[1])
    IN IF lock
       THEN [p EXCEPT !.camera = snap[1],
                      !.anim = [a EXCEPT !.zoom_forever =
                                  <<[snap[2] EXCEPT !.lock_repeating_spot = TRUE]>>]]
       ELSE [p EXCEPT !.anim = a]

PlaybackProjects ==
    {KeyedProject(l) : l \in BOOLEAN}
        \cup {EndlessProject(l, r, k) : l \in BOOLEAN, r \in BOOLEAN, k \in BOOLEAN}

PlaybackInit ==
    /\ a_proj \in PlaybackProjects
    /\ a_gpu = "None"
    /\ a_render = <<>>
    /\ a_event = NoEvent
    /\ a_proj0 = a_proj
    /\ a_elapsed = 0
    /\ a_init_failed = FALSE

\* one update of the application during playback
PlaybackUpdate ==
    /\ \E dt \in PlaybackTicks, kind \in PlaybackKinds :
          /\ a_elapsed + dt <= MaxElapsed * TicksPerSecond
          /\ Update(dt, Event(kind, "Zoom", 0, RZero, 0, ""), TRUE)

PlaybackNext == PlaybackUpdate

\* ---- inputs of the timeline-editing specification ----
\* the keys a track is let to hold
MaxKeys == 2
\* the durations the slider is moved to: 0.5 s and 1 s
TimelineDurations == {TicksPerSecond \div 2, TicksPerSecond}
\* pointer positions across a row: its ends and its middle
PointerPositions == {RZero, <<1, 2>>, ROne}
\* the rows the pointer is used on
TimelineTracks == {"Palette"}
TimelineTick == TicksPerSecond \div 4

TimelineEvents(anim) ==
    {NoEvent, Event("delete_key", "Zoom", 0, RZero, 0, "")}
    \cup {Event("duration", "Zoom", 0, RZero, d, "") : d \in TimelineDurations}
    \cup {Event("add_key", "Zoom", 0, RZero, 0, "") : x \in
            {tr \in {"Zoom"} : \A t2 \in Tracks : Len(anim.kf[t2]) < MaxKeys}}
    \cup {Event("row_click", tr, 0, rel, 0, "") :
            tr \in TimelineTracks, rel \in PointerPositions}
    \cup {Event("row_double", tr, 0, rel, 0, "") :
            tr \in {t2 \in TimelineTracks : Len(anim.kf[t2]) < MaxKeys},
            rel \in PointerPositions}
    \cup {Event("key_drag", tr, i, rel, 0, "") :
            tr \in TimelineTracks, i \in 1..MaxKeys, rel \in PointerPositions}
    \cup {Event(kind, tr, i, RZero, 0, "") :
            kind \in {"key_click", "key_secondary"},
            tr \in TimelineTracks, i \in 1..MaxKeys}

TimelineInit ==
    /\ a_proj = [DefaultProject EXCEPT !.anim.duration = TicksPerSecond]
    /\ a_gpu = "None"
    /\ a_render = <<>>
    /\ a_event = NoEvent
    /\ a_proj0 = a_proj
    /\ a_elapsed = 0
    /\ a_init_failed = FALSE

\* one update of the application while the timeline is edited
TimelineUpdate ==
    \E ev \in TimelineEvents(a_proj.anim) : Update(TimelineTick, ev, TRUE)

TimelineNext == TimelineUpdate

\* ---- inputs of the selection specification ----
\* the keys of the tracks: three on the palette track, two on the zoom track,
\* of distinct values and easings
SelectionTracks ==
    [tr \in Tracks |->
        CASE tr = "Palette" ->
                <<Key(0, NumInt(0), "Linear"),
                  Key(TicksPerSecond \div 2, NumInt(1), "EaseIn"),
                  Key(TicksPerSecond, NumInt(2), "EaseOut")>>
          [] tr = "Zoom" ->
                <<Key(0, NumInt(300), "Linear"),
                  Key(TicksPerSecond, NumInt(600), "EaseIn")>>
          [] OTHER -> <<>>]

\* the selection at the start: none, a key of the palette or zoom track, or
\* (from a project file) a key of the empty Center X track
SelectionsAtStart ==
    {<<>>, Selected("CenterX", 1)}
        \cup UNION {{Selected(tr, i) : i \in 1..Len(SelectionTracks[tr])} :
                        tr \in {"Palette", "Zoom"}}

\* one input per frame: a click or a right click on a key of the palette row,
\* the Delete key button, the endless-zoom preset (once)
SelectionEvents(anim) ==
    {Event("delete_key", "Zoom", 0, RZero, 0, "")}
    \cup {Event("preset", "Zoom", 0, RZero, 0, "") : x \in
            {tr \in {"Zoom"} : anim.zoom_forever = <<>>}}
    \cup {Event(kind, "Palette", i, RZero, 0, "") :
            kind \in {"key_click", "key_secondary"},
            i \in 1..Len(anim.kf["Palette"])}

SelectionInit ==
    /\ a_proj \in {[DefaultProject EXCEPT
                        !.anim.duration = TicksPerSecond,
                        !.anim.kf = SelectionTracks,
                        !.anim.selection = sel] : sel \in SelectionsAtStart}
    /\ a_gpu = "None"
    /\ a_render = <<>>
    /\ a_event = NoEvent
    /\ a_proj0 = a_proj
    /\ a_elapsed = 0
    /\ a_init_failed = FALSE

\* one update of the application while keys are selected and edited
SelectionUpdate ==
    \E ev \in SelectionEvents(a_proj.anim) : Update(TimelineTick, ev, TRUE)

SelectionNext == SelectionUpdate

\* ---- inputs of the key-editing specification ----
\* three palette keys at 0.25 s, 0.5 s and 1 s, of distinct values and easings
KeyEditTracks ==
    [NoKeys EXCEPT !["Palette"] =
        <<Key(TicksPerSecond \div 4, NumInt(1), "EaseIn"),
          Key(TicksPerSecond \div 2, NumInt(2), "EaseOut"),
          Key(TicksPerSecond, NumInt(3), "SmoothStep")>>]

\* one input per frame on the palette row: a right click on a key, a drag of a
\* key to the right end of the row, or a double click at the left end of the
\* row while the track holds fewer keys than at the start
KeyEditEvents(anim) ==
    {Event("key_secondary", "Palette", i, RZero, 0, "") :
        i \in 1..Len(anim.kf["Palette"])}
    \cup {Event("key_drag", "Palette", i, ROne, 0, "") :
            i \in 1..Len(anim.kf["Palette"])}
    \cup {Event("row_double", tr, 0, RZero, 0, "") :
            tr \in {t2 \in {"Palette"} :
                        Len(anim.kf[t2]) < Len(KeyEditTracks[t2])}}

KeyEditInit ==
    /\ a_proj \in {[DefaultProject EXCEPT
                        !.anim.duration = TicksPerSecond,
                        !.anim.kf = KeyEditTracks,
                        !.anim.selection = Selected("Palette", i)] :
                    i \in 1..Len(KeyEditTracks["Palette"])}
    /\ a_gpu = "None"
    /\ a_render = <<>>
    /\ a_event = NoEvent
    /\ a_proj0 = a_proj
    /\ a_elapsed = 0
    /\ a_init_failed = FALSE

\* one update of the application while the keys of a track are edited
KeyEditUpdate ==
    \E ev \in KeyEditEvents(a_proj.anim) : Update(TimelineTick, ev, TRUE)

KeyEditNext == KeyEditUpdate

\* ---- inputs of the clock specification ----
\* one input per frame, or none: Play/Pause, Restart, the loop checkbox, a
\* click on the palette row (scrubbing), the duration slider, the endless-zoom
\* preset (once)
ClockEvents(anim) ==
    {NoEvent}
    \cup {Event(kind, "Zoom", 0, RZero, 0, "") :
            kind \in {"play_pause", "restart", "loop"}}
    \cup {Event("preset", "Zoom", 0, RZero, 0, "") : x \in
            {tr \in {"Zoom"} : anim.zoom_forever = <<>>}}
    \cup {Event("row_click", "Palette", 0, rel, 0, "") : rel \in PointerPositions}
    \cup {Event("duration", "Zoom", 0, RZero, d, "") : d \in TimelineDurations}

\* the project starts with its clock at 0 and a duration of 1 s
ClockInit ==
    /\ a_proj = [DefaultProject EXCEPT !.anim.duration = TicksPerSecond]
    /\ a_gpu = "None"
    /\ a_render = <<>>
    /\ a_event = NoEvent
    /\ a_proj0 = a_proj
    /\ a_elapsed = 0
    /\ a_init_failed = FALSE

\* one update of the application, 0.25 s after the last one
ClockUpdate ==
    \E ev \in ClockEvents(a_proj.anim) :
        /\ a_elapsed + TimelineTick <= MaxElapsed * TicksPerSecond
        /\ Update(TimelineTick, ev, TRUE)

ClockNext == ClockUpdate

\* ---- inputs of the session specification: the backend choice ----
Backends == {"Cpu", "Gpu"}

\* the project the session starts with: the backend is the default one or the
\* one of a loaded project
SessionProjects ==
    {[KeyedProject(TRUE) EXCEPT !.render_backend = b] : b \in Backends}

SessionEvents ==
    {NoEvent} \cup {Event("backend", "Zoom", 0, RZero, 0, b) : b \in Backends}

SessionInit ==
    /\ a_proj \in SessionProjects
    /\ a_gpu = "None"
    /\ a_render = <<>>
    /\ a_event = NoEvent
    /\ a_proj0 = a_proj
    /\ a_elapsed = 0
    /\ a_init_failed = FALSE

\* one update of the application; GpuRenderer::new, when called, returns Ok or
\* Err
SessionUpdate ==
    \E ev \in SessionEvents, gpu_init_ok \in BOOLEAN :
        /\ a_elapsed + TimelineTick <= MaxElapsed * TicksPerSecond
        /\ Update(TimelineTick, ev, gpu_init_ok)

SessionNext == SessionUpdate

(***************************************************************************)
(* Calls of the functions of the animation: Animation::advance,            *)
(* Animation::resolve_times, Keyframes::sample                             *)
(***************************************************************************)

\* no call is made
CallIdle ==
    /\ f_pc = "idle"
    /\ f_in = [fn |-> "none"]
    /\ f_out = <<>>

\* the function returns out
Return(out) ==
    /\ f_pc' = "returned"
    /\ f_out' = out
    /\ UNCHANGED f_in
    /\ UNCHANGED notCallVars

\* ---- inputs of the animation-call specification ----
\* durations: none, negative, 0.5 s, 1 s, 5 s
AnimDurations == {0, -TicksPerSecond, TicksPerSecond \div 2, TicksPerSecond,
                  5 * TicksPerSecond}
\* clock values and steps, in ticks: 0, one tick, 0.25 s, 0.5 s, 1 s, 12 s
AnimTimes == {0, 1, TicksPerSecond \div 4, TicksPerSecond \div 2,
              TicksPerSecond, 12 * TicksPerSecond}

AnimInputs ==
    {[DefaultAnimation EXCEPT
         !.duration = d, !.t = t, !.playing = p, !.looping = l,
         !.zoom_forever = z] :
        d \in AnimDurations, t \in AnimTimes, p \in BOOLEAN, l \in BOOLEAN,
        z \in {<<>>, <<WithDefaults(NumInt(300))>>}}

AdvanceCalls ==
    {[fn |-> "advance", a |-> a, dt |-> dt] :
        a \in AnimInputs, dt \in AnimTimes}

ResolveCalls ==
    {[fn |-> "resolve_times", a |-> a, absolute_time |-> t] :
        a \in {x \in AnimInputs : x.t = 0 /\ x.playing}, t \in AnimTimes}

\* key times, in ticks: 0, one tick (5e-5 s, inside the epsilon), 4 and 12
\* ticks
SampleKeyTimes == {0, 1, 2 * KeyEps, 6 * KeyEps}
\* the value of the i-th key of a track, and the caller's default
SampleKeyValues == <<NumInt(2), NumInt(6), NumInt(3)>>
SampleDefault == NumInt(9)

\* the time-sorted tracks of up to three keys: times in non-decreasing order,
\* equal and sub-epsilon neighbours included, every easing
SampleTracks ==
    UNION {
        {[i \in 1..n |-> Key(ts[i], SampleKeyValues[i], es[i])] :
            ts \in {x \in [1..n -> SampleKeyTimes] :
                        \A i \in 1..(n - 1) : x[i] <= x[i + 1]},
            es \in [1..n -> Easings]} :
        n \in 0..3}

\* sample times: on, between, before and after the key times
SampleTimes == SampleKeyTimes \cup {KeyEps, KeyEps + 1, 4 * KeyEps, 8 * KeyEps}

SampleCalls ==
    {[fn |-> "sample", keys |-> keys, t |-> t, default |-> SampleDefault] :
        keys \in SampleTracks, t \in SampleTimes}

CallSample ==
    /\ f_pc = "idle" /\ f_in.fn = "sample"
    /\ Return(KfSample(f_in.keys, f_in.t, f_in.default))

CallAdvance ==
    /\ f_pc = "idle" /\ f_in.fn = "advance"
    /\ Return(Advance(f_in.a, f_in.dt))

CallResolveTimes ==
    /\ f_pc = "idle" /\ f_in.fn = "resolve_times"
    /\ Return(ResolveTimes(f_in.a, f_in.absolute_time))

AnimCallInit ==
    /\ f_pc = "idle"
    /\ f_in \in AdvanceCalls \cup ResolveCalls \cup SampleCalls
    /\ f_out = <<>>

AnimCallNext == CallAdvance \/ CallResolveTimes \/ CallSample

(***************************************************************************)
(* Calls of Animation::sample_zoom at two times t and u                    *)
(***************************************************************************)

\* stored speeds, in thousandths: 0.1, 0.5, 0.9, 0.995, 1.0, 2.0
ZoomSpeeds == {100, SpeedMin, DefaultSpeed, SpeedMax, SpeedOne, 2 * SpeedOne}
\* start scales: 300 and the floor 0.0001 of with_defaults
ZoomStartScales == {NumInt(300), Num(Rat(1, 10000))}
\* times, in ticks: -1 s, 0, one tick, 1 s, 12 s
ZoomTimes == {-TicksPerSecond, 0, 1, TicksPerSecond, 12 * TicksPerSecond}
\* the zoom keyframe track: empty, or keys of other values than the start
\* scales
ZoomKeyTracks ==
    {<<>>, <<Key(0, NumInt(2), "Linear"), Key(TicksPerSecond, NumInt(6), "EaseIn")>>}

ZoomCalls ==
    {[fn |-> "sample_zoom",
      a |-> [DefaultAnimation EXCEPT
                !.kf = [@ EXCEPT !["Zoom"] = k], !.zoom_forever = z],
      t |-> t, u |-> u, default |-> SampleDefault] :
        k \in ZoomKeyTracks, t \in ZoomTimes, u \in ZoomTimes,
        z \in {<<>>} \cup
              {<<[start_scale |-> s, speed |-> sp, reverse |-> r,
                  lock_repeating_spot |-> FALSE]>> :
                  s \in ZoomStartScales, sp \in ZoomSpeeds, r \in BOOLEAN}}

ZoomCallInit ==
    /\ f_pc = "idle"
    /\ f_in \in ZoomCalls
    /\ f_out = <<>>

\* sample_zoom(t, default)
CallSampleZoom ==
    /\ f_pc = "idle" /\ f_in.fn = "sample_zoom"
    /\ f_pc' = "loop"
    /\ f_out' = <<SampleZoom(f_in.a, f_in.t, f_in.default)>>
    /\ UNCHANGED f_in
    /\ UNCHANGED notCallVars

\* sample_zoom(u, default), of the same animation
CallSampleZoomAgain ==
    /\ f_pc = "loop" /\ f_in.fn = "sample_zoom"
    /\ Return(Append(f_out, SampleZoom(f_in.a, f_in.u, f_in.default)))

ZoomCallNext == CallSampleZoom \/ CallSampleZoomAgain

(***************************************************************************)
(* The u32 arithmetic of render_image and blit_tile on large frames.  A    *)
(* natural number is the little-endian sequence of its base-256 digits,    *)
(* without leading zeros: the products pass the range of the integers.     *)
(***************************************************************************)

DigitBase == 2 ^ 8
\* the digits a u32 holds
U32Digits == 4

RECURSIVE ToDigits(_)
ToDigits(n) ==
    IF n = 0 THEN <<>> ELSE <<n % DigitBase>> \o ToDigits(n \div DigitBase)

DigitAt(d, i) == IF i >= 1 /\ i <= Len(d) THEN d[i] ELSE 0

RECURSIVE Trimmed(_)
Trimmed(d) ==
    IF d # <<>> /\ d[Len(d)] = 0 THEN Trimmed(SubSeq(d, 1, Len(d) - 1)) ELSE d

\* the digits of the number with coefficients c[i..], plus carry
RECURSIVE Carried(_, _, _)
Carried(c, i, carry) ==
    IF i > Len(c) THEN ToDigits(carry)
    ELSE <<(c[i] + carry) % DigitBase>>
         \o Carried(c, i + 1, (c[i] + carry) \div DigitBase)

\* the coefficient k of the product: the sum of a[j] * b[k + 1 - j], j >= i
RECURSIVE ConvAt(_, _, _, _)
ConvAt(a, b, k, i) ==
    IF i > Len(a) THEN 0
    ELSE a[i] * DigitAt(b, k + 1 - i) + ConvAt(a, b, k, i + 1)

\* the exact product and sum of two natural numbers
WideMul(a, b) ==
    Trimmed(Carried([k \in 1..(Len(a) + Len(b)) |-> ConvAt(a, b, k, 1)], 1, 0))
WideAdd(a, b) ==
    Trimmed(Carried([k \in 1..Max(Len(a), Len(b)) |->
                        DigitAt(a, k) + DigitAt(b, k)], 1, 0))

\* a <= b
RECURSIVE WideLeqFrom(_, _, _)
WideLeqFrom(a, b, i) ==
    IF i = 0 THEN TRUE
    ELSE IF a[i] # b[i] THEN a[i] < b[i]
    ELSE WideLeqFrom(a, b, i - 1)
WideLeq(a, b) ==
    IF Len(a) # Len(b) THEN Len(a) < Len(b) ELSE WideLeqFrom(a, b, Len(a))

\* the value a u32 keeps of a result: the result modulo 2^32
U32Wrap(d) == Trimmed(SubSeq(d, 1, Min(Len(d), U32Digits)))
\* the result does not fit a u32
U32Overflows(d) == Len(d) > U32Digits

\* render_image: size.0 * size.1 * 4, the products in u32
FramePixelsU32(size) == U32Wrap(WideMul(ToDigits(size[1]), ToDigits(size[2])))
FrameLenU32(size) ==
    U32Wrap(WideMul(FramePixelsU32(size), ToDigits(BytesPerPixel)))
FrameLenOverflows(size) ==
    \/ U32Overflows(WideMul(ToDigits(size[1]), ToDigits(size[2])))
    \/ U32Overflows(WideMul(FramePixelsU32(size), ToDigits(BytesPerPixel)))

\* blit_tile: (dst_y * full_width + tile.offset_x) * 4 of tile row ty, the
\* operations in u32
DstRowU32(full_width, tile, ty) ==
    U32Wrap(WideMul(ToDigits(tile.offset_y + ty), ToDigits(full_width)))
DstPixelU32(full_width, tile, ty) ==
    U32Wrap(WideAdd(DstRowU32(full_width, tile, ty), ToDigits(tile.offset_x)))
DstOffsetU32(full_width, tile, ty) ==
    U32Wrap(WideMul(DstPixelU32(full_width, tile, ty), ToDigits(BytesPerPixel)))
DstOffsetOverflows(full_width, tile, ty) ==
    \/ U32Overflows(WideMul(ToDigits(tile.offset_y + ty), ToDigits(full_width)))
    \/ U32Overflows(WideAdd(DstRowU32(full_width, tile, ty),
                            ToDigits(tile.offset_x)))
    \/ U32Overflows(WideMul(DstPixelU32(full_width, tile, ty),
                            ToDigits(BytesPerPixel)))
\* blit_tile: dst_offset + len, in usize
DstEnd(full_width, tile, ty) ==
    WideAdd(DstOffsetU32(full_width, tile, ty),
            ToDigits(tile.tile_w * BytesPerPixel))

\* The rows of a tile whose offsets are computed: the first and the last (the
\* offsets grow with ty, so the last row is the first to pass a limit)
BlitRowsChecked(tile) == {0, tile.tile_h - 1}

\* ---- inputs: frames below, at and above 2^32 bytes ----
LargeFrames == {<<3, 2>>, <<16384, 16384>>, <<32768, 32767>>, <<32768, 32768>>,
                <<40000, 30000>>, <<65536, 65536>>}
LargeTileSizes == {0, DefaultTile, SingleTileMax}

LargeFrameInit ==
    /\ f_pc = "idle"
    /\ f_in \in {[fn |-> "render_image", size |-> sz, tile_override |-> tl,
                  overflow_checks |-> oc] :
                    sz \in LargeFrames, tl \in LargeTileSizes, oc \in BOOLEAN}
    /\ f_out = <<>>

\* render_image up to the for loop: vec![0u8; (size.0 * size.1 * 4) as usize].
\* An overflowing product panics in a build with overflow checks (debug) and
\* wraps in one without (release).
FrameAlloc ==
    /\ f_pc = "idle" /\ f_in.fn = "render_image"
    /\ IF f_in.overflow_checks /\ FrameLenOverflows(f_in.size)
       THEN Return([status |-> "panic_overflow", len |-> <<>>, next |-> 1])
       ELSE /\ f_pc' = "loop"
            /\ f_out' = [status |-> "tiles", len |-> FrameLenU32(f_in.size),
                         next |-> 1]
            /\ UNCHANGED f_in
            /\ UNCHANGED notCallVars

\* one iteration of the for loop of render_image: blit_tile computes the
\* destination offsets of the tile and indexes the frame with them
FrameBlit ==
    /\ f_pc = "loop" /\ f_in.fn = "render_image"
    /\ LET tiles == tile_iterator(f_in.size[1], f_in.size[2], f_in.tile_override)
       IN /\ f_out.next <= Len(tiles)
          /\ LET tile == tiles[f_out.next]
                 w == f_in.size[1]
             IN IF f_in.overflow_checks
                   /\ \E ty \in BlitRowsChecked(tile) :
                         DstOffsetOverflows(w, tile, ty)
                THEN Return([f_out EXCEPT !.status = "panic_overflow"])
                ELSE IF \E ty \in BlitRowsChecked(tile) :
                            ~WideLeq(DstEnd(w, tile, ty), f_out.len)
                THEN Return([f_out EXCEPT !.status = "panic_slice"])
                ELSE /\ f_out' = [f_out EXCEPT !.next = @ + 1]
                     /\ UNCHANGED <<f_pc, f_in>>
                     /\ UNCHANGED notCallVars

\* the loop is over: render_image returns the frame
FrameReturn ==
    /\ f_pc = "loop" /\ f_in.fn = "render_image"
    /\ f_out.next > Len(tile_iterator(f_in.size[1], f_in.size[2],
                                      f_in.tile_override))
    /\ Return([f_out EXCEPT !.status = "done"])

LargeFrameNext == FrameAlloc \/ FrameBlit \/ FrameReturn

(***************************************************************************)
(* Calls of Easing::apply                                                  *)
(***************************************************************************)

\* the inputs are the multiples of 1 / EasingSteps from -2 / EasingSteps to
\* 1 + 2 / EasingSteps, and 1/2
EasingSteps == 20
EasingInputs ==
    {Rat(k, EasingSteps) : k \in (-2)..(EasingSteps + 2)} \cup {Rat(1, 2)}

EasingCallInit ==
    /\ f_pc = "idle"
    /\ f_in \in {[fn |-> "apply", easing |-> e, t |-> t] :
                    e \in Easings, t \in EasingInputs}
    /\ f_out = <<>>

CallEasingApply ==
    /\ f_pc = "idle" /\ f_in.fn = "apply"
    /\ Return(EasingApply(f_in.easing, f_in.t))

EasingCallNext == CallEasingApply

(***************************************************************************)
(* Calls of sample_palette                                                 *)
(***************************************************************************)

\* sample_palette: ((lut.len() - 1) as f32 * t.clamp(0.0, 1.0)) as usize, the
\* cast truncating toward zero
SamplePaletteIndex(len, t) ==
    LET x == RMul(RInt(len - 1), RClamp(t, RZero, ROne)) IN x[1] \div x[2]

\* sample_palette; the entry of index i is lut[i + 1]
sample_palette(lut, t) == lut[SamplePaletteIndex(Len(lut), t) + 1]

\* ---- inputs ----
\* a LUT of len distinct entries: entry i is the color [i, 0, 0]
LutOfLen(len) == [i \in 1..len |-> <<i - 1, 0, 0>>]
LutLengths == {1, 2, 3, 5, 9}
\* t: the multiples of 1/8 from -1/4 to 5/4
LutTimes == {Rat(k, 8) : k \in (-2)..10}

SamplePaletteInit ==
    /\ f_pc = "idle"
    /\ f_in \in {[fn |-> "sample_palette", lut |-> LutOfLen(n), t |-> t] :
                    n \in LutLengths, t \in LutTimes}
    /\ f_out = <<>>

CallSamplePalette ==
    /\ f_pc = "idle" /\ f_in.fn = "sample_palette"
    /\ Return(sample_palette(f_in.lut, f_in.t))

SamplePaletteNext == CallSamplePalette

(***************************************************************************)
(* Calls of Keyframes::upsert                                              *)
(***************************************************************************)

\* the tracks of up to three keys, in any order of their times (a drag leaves
\* a track unsorted), with equal and sub-epsilon neighbours
UpsertTracks ==
    UNION {
        {[i \in 1..n |-> Key(ts[i], SampleKeyValues[i], es[i])] :
            ts \in [1..n -> SampleKeyTimes],
            es \in [1..n -> {"EaseIn", "SmoothStep"}]} :
        n \in 0..3}
\* the value given to upsert
UpsertValue == NumInt(7)

UpsertCallInit ==
    /\ f_pc = "idle"
    /\ f_in \in {[fn |-> "upsert", keys |-> keys, t |-> t, v |-> UpsertValue] :
                    keys \in UpsertTracks, t \in SampleTimes}
    /\ f_out = <<>>

CallUpsert ==
    /\ f_pc = "idle" /\ f_in.fn = "upsert"
    /\ Return(Upsert(f_in.keys, f_in.t, f_in.v))

UpsertCallNext == CallUpsert

(***************************************************************************)
(* Palette: default_palette, normalized_stops.  A stop position is an      *)
(* integer number of 1e-8; a color is its three components, in hundredths. *)
(***************************************************************************)

\* the position 1.0
PosOne == 100000000
\* f32::EPSILON (1.1920929e-7): |x| > EPSILON is |x| > 11 units of 1e-8
PosEpsilon == 11

PaletteStop(pos, color) == [pos |-> pos, color |-> color]

\* default_palette
default_palette ==
    <<PaletteStop(0, <<0, 3, 39>>),
      PaletteStop(16000000, <<13, 42, 80>>),
      PaletteStop(42000000, <<93, 100, 100>>),
      PaletteStop(64250000, <<100, 67, 0>>),
      PaletteStop(85750000, <<0, 1, 0>>),
      PaletteStop(PosOne, <<0, 3, 39>>)>>

\* slice::sort_by on the positions: a stable sort
RECURSIVE SortByPos(_)
SortByPos(stops) ==
    IF Len(stops) <= 1 THEN stops
    ELSE LET init == SortByPos(SubSeq(stops, 1, Len(stops) - 1))
             last == stops[Len(stops)]
             n == Cardinality({i \in 1..Len(init) : init[i].pos <= last.pos})
         IN SubSeq(init, 1, n) \o <<last>> \o SubSeq(init, n + 1, Len(init))

\* normalized_stops: the stop at 0 inserted in front of the sorted stops
WithFirstStop(sorted) ==
    IF sorted[1].pos > 0
    THEN <<PaletteStop(0, sorted[1].color)>> \o sorted
    ELSE sorted

\* normalized_stops: the stop at 1 pushed after the stops
WithLastStop(sorted) ==
    IF Abs(sorted[Len(sorted)].pos - PosOne) > PosEpsilon
    THEN Append(sorted, PaletteStop(PosOne, sorted[Len(sorted)].color))
    ELSE sorted

normalized_stops(stops) ==
    IF Len(stops) = 0 THEN default_palette
    ELSE WithLastStop(WithFirstStop(SortByPos(stops)))

\* ---- inputs of the palette-call specification ----
\* the stops a list is made of: positions -0.5, 0, 0.3, 0.99999994, 1 and 1.5
\* (a palette file may hold any position)
StopPositions == {-(PosOne \div 2), 0, 3 * (PosOne \div 10), PosOne - 6, PosOne,
                  3 * (PosOne \div 2)}
\* the color of the i-th stop of a list
StopColors == <<<<100, 0, 0>>, <<0, 100, 0>>, <<0, 0, 100>>>>

\* the lists of up to three stops, in any order
StopLists ==
    UNION {{[i \in 1..n |-> PaletteStop(ps[i], StopColors[i])] :
                ps \in [1..n -> StopPositions]} : n \in 0..3}

PaletteCallInit ==
    /\ f_pc = "idle"
    /\ f_in \in {[fn |-> "normalized_stops", stops |-> x] : x \in StopLists}
    /\ f_out = <<>>

\* normalized_stops(stops)
CallNormalizedStops ==
    /\ f_pc = "idle" /\ f_in.fn = "normalized_stops"
    /\ Return(<<normalized_stops(f_in.stops)>>)

\* normalized_stops applied to its own result
CallNormalizedAgain ==
    /\ f_pc = "returned" /\ f_in.fn = "normalized_stops" /\ Len(f_out) = 1
    /\ Return(Append(f_out, normalized_stops(f_out[1])))

PaletteCallNext == CallNormalizedStops \/ CallNormalizedAgain

(***************************************************************************)
(* The per-pixel iteration of render_fractal_cpu, on plane points and      *)
(* parameters with integer coordinates, where the f32 arithmetic of the    *)
(* loop is exact.  The orbit trap reads the loop's values and writes none  *)
(* of them; it is left out.                                                *)
(***************************************************************************)

\* z^n for a complex z = <<x, y>> and an integer n >= 1: what r.powf(power),
\* theta * power, cos and sin compute for an integer power
RECURSIVE Cpow(_, _)
Cpow(z, n) ==
    IF n <= 1 THEN z
    ELSE LET w == Cpow(z, n - 1) IN
         <<w[1] * z[1] - w[2] * z[2], w[1] * z[2] + w[2] * z[1]>>

\* x2 + y2 > er2
Escaped(z, escape_radius) ==
    z[1] * z[1] + z[2] * z[2] > escape_radius * escape_radius

\* the match on p.kind inside the loop: the next z
PixelStep(kind, z, c, power) ==
    CASE kind \in {"Mandelbrot", "Julia"} ->
            <<z[1] * z[1] - z[2] * z[2] + c[1], 2 * z[1] * z[2] + c[2]>>
      [] kind = "BurningShip" ->
            <<Abs(z[1] * z[1] - z[2] * z[2] + c[1]),
              Abs(2 * Abs(z[1]) * Abs(z[2]) + c[2])>>
      [] kind = "Multibrot" ->
            <<Cpow(z, power)[1] + c[1], Cpow(z, power)[2] + c[2]>>

\* let mut smooth = 0.0f32
SmoothZero == [mu |-> <<>>]

MutPixelSmooth(i, z, max_iter, smooth) ==
    IF i <= max_iter
    THEN [mu |-> <<i, z[1] * z[1] + z[2] * z[2], max_iter>>]
    ELSE smooth

\* after the loop: if i < max_iter, smooth = mu / max_iter with
\* mu = i + 1 - ln(ln(r) / ln 2) / ln 2, r = sqrt(zx^2 + zy^2); the value is
\* kept as the numbers it is computed from
PixelSmooth(i, z, max_iter, smooth) ==
    IF i < max_iter
    THEN [mu |-> <<i, z[1] * z[1] + z[2] * z[2], max_iter>>]
    ELSE smooth

\* ---- inputs of the pixel specification ----
\* the plane point (rx, ry) of the pixel, the kind with the parameters it
\* reads (power for Multibrot, c for Julia), max_iter and escape_radius
PixelInputs ==
    {[fn |-> "pixel", kind |-> k[1], power |-> k[2], c |-> k[3], point |-> pt,
      max_iter |-> m, escape_radius |-> er] :
        k \in {<<"Mandelbrot", 2, <<0, 0>>>>, <<"BurningShip", 2, <<0, 0>>>>,
               <<"Multibrot", 2, <<0, 0>>>>, <<"Multibrot", 3, <<0, 0>>>>,
               <<"Julia", 2, <<0, 0>>>>, <<"Julia", 2, <<-1, 0>>>>},
        pt \in {<<0, 0>>, <<-1, 0>>, <<0, 1>>, <<1, 0>>, <<-2, 0>>, <<1, 1>>,
                <<2, 2>>, <<3, 0>>},
        m \in {0, 1, 3, 1000},
        er \in {2, 4}}

PixelCallInit ==
    /\ f_pc = "idle"
    /\ f_in \in PixelInputs
    /\ f_out = <<>>

\* the initial z and c of the pixel, i = 0, smooth = 0
PixelBegin ==
    /\ f_pc = "idle" /\ f_in.fn = "pixel"
    /\ f_pc' = "loop"
    /\ f_out' = [z |-> IF f_in.kind = "Julia" THEN f_in.point ELSE <<0, 0>>,
                 c |-> IF f_in.kind = "Julia" THEN f_in.c ELSE f_in.point,
                 i |-> 0, smooth |-> SmoothZero]
    /\ UNCHANGED f_in
    /\ UNCHANGED notCallVars

\* one iteration of while i < p.max_iter that does not break
PixelIterate ==
    /\ f_pc = "loop"
    /\ f_out.i < f_in.max_iter
    /\ ~Escaped(f_out.z, f_in.escape_radius)
    /\ f_out' = [f_out EXCEPT
                    !.z = PixelStep(f_in.kind, f_out.z, f_out.c, f_in.power),
                    !.i = f_out.i + 1]
    /\ UNCHANGED <<f_pc, f_in>>
    /\ UNCHANGED notCallVars

\* the loop ends, by its condition or by the break; smooth is computed
PixelEnd ==
    /\ f_pc = "loop"
    /\ f_out.i >= f_in.max_iter \/ Escaped(f_out.z, f_in.escape_radius)
    /\ Return([f_out EXCEPT
                  !.smooth = PixelSmooth(f_out.i, f_out.z, f_in.max_iter, @)])

PixelCallNext == PixelBegin \/ PixelIterate \/ PixelEnd

(***************************************************************************)
(* Claims about tiling and the backends (SpecRender)                       *)
(***************************************************************************)

\* the single-tile render of a frame: render_image with tile_override = 0 on a
\* frame whose sides are both <= 8192, CPU backend
SingleTileRender(size) ==
    LET whole == TileFull(size[1], size[2]) IN
    blit_tile(ZeroFrame(size[1], size[2]), size[1], whole, render_fractal_cpu(whole))

\* C1: on the CPU backend, for every frame with both sides <= 8192 and every
\* tile size, the frame render_image returns equals the single-tile render of
\* the same frame, pixel for pixel.
C1_TiledEqualsSingleTile ==
    (r_pc = "done" /\ r_backend = "Cpu"
        /\ r_size[1] <= SingleTileMax /\ r_size[2] <= SingleTileMax)
    => Flat(r_frame) = SingleTileRender(r_size)

\* a CPU render of a frame split in both directions has returned
C1_Witness ==
    /\ r_pc = "done" /\ r_backend = "Cpu" /\ Len(r_tiles) >= 4
    /\ r_tiles[Len(r_tiles)].offset_x > 0 /\ r_tiles[Len(r_tiles)].offset_y > 0

InTile(t, x, y) ==
    /\ t.offset_x <= x /\ x < t.offset_x + t.tile_w
    /\ t.offset_y <= y /\ y < t.offset_y + t.tile_h

FrameRect(frame, full_width, t) ==
    [i \in 1..(t.tile_w * t.tile_h) |->
        frame[(t.offset_y + (i - 1) \div t.tile_w) * full_width
              + t.offset_x + ((i - 1) % t.tile_w) + 1]]

\* C10: with the GPU backend and a renderer, every tile is attempted on the GPU
\* whatever happened to the tiles before it; the rectangle of a tile whose GPU
\* render failed holds the CPU render of that tile; and the returned frame is
\* complete: every tile's rectangle has been written.
C10_GpuTileErrorFallsBackToCpu ==
    (r_pc = "done" /\ r_backend = "Gpu" /\ r_gpu = "Some") =>
        /\ Len(r_log) = Len(r_tiles)
        /\ \A i \in 1..Len(r_tiles) :
              /\ r_log[i] \in {"gpu", "gpu_err_cpu"}
              /\ r_log[i] = "gpu_err_cpu" =>
                    FrameRect(Flat(r_frame), r_size[1], r_tiles[i])
                        = render_fractal_cpu(r_tiles[i])
              /\ r_log[i] = "gpu" =>
                    FrameRect(Flat(r_frame), r_size[1], r_tiles[i])
                        = gpu_render_ok(r_tiles[i])
        /\ \A p \in 1..Len(r_frame) : \A j \in 1..Len(r_frame[p]) : r_frame[p][j] # ZeroPixel

\* a frame of several tiles has returned, a GPU error on one tile and a GPU
\* success on a later one
C10_Witness ==
    /\ r_pc = "done" /\ r_backend = "Gpu" /\ r_gpu = "Some"
    /\ \E i, j \in 1..Len(r_log) :
          i < j /\ r_log[i] = "gpu_err_cpu" /\ r_log[j] = "gpu"

(***************************************************************************)
(* Claims about live playback (SpecPlayback)                               *)
(***************************************************************************)

\* a < b for two numbers q * F^(e / TicksPerSecond) of one positive q or of one
\* power: F < 1, so the larger power is the smaller number
NumLess(a, b) ==
    IF a.e = b.e THEN RLess(a.q, b.q)
    ELSE a.q = b.q /\ RLess(RZero, a.q) /\ a.e > b.e

\* an update with no user input, of an animation that plays before and after
\* it, endless zoom active and not reversed
LiveZoomTick ==
    /\ a_render # <<>> /\ a_render' # <<>>
    /\ a_event'.kind = "none"
    /\ a_proj.anim.playing /\ a_proj'.anim.playing
    /\ a_proj.anim.zoom_forever # <<>>
    /\ ~a_proj.anim.zoom_forever[1].reverse

\* C3: with endless zoom active and not reversed, the camera scale sampled for
\* a live frame is strictly smaller than the one of the frame before, at every
\* tick while playing stays true, the ticks at which the looping clock wraps
\* included.
C3_EndlessZoomShrinksEveryTick ==
    [][LiveZoomTick =>
          NumLess(a_render'[1].camera.scale, a_render[1].camera.scale)]_vars

\* C4: the animated values live playback renders with, once its clock was
\* advanced by a total of a_elapsed from the project a_proj0, are the values
\* the export loop computes from a_proj0 for the frame at t = a_elapsed.
C4_LiveEqualsExportAtElapsed ==
    a_render # <<>> =>
        LET p == ExportSnapshot(a_proj0, a_elapsed) IN
        /\ a_render[1].camera = p.camera
        /\ a_render[1].palette_phase = p.palette_phase

(***************************************************************************)
(* Claims about the keyframe tracks (SpecTimeline)                         *)
(***************************************************************************)

\* C5: after any sequence of keyframe mutations the keys of every track are
\* ordered by non-decreasing time.
C5_KeysSortedByTime ==
    \A tr \in Tracks :
        \A i \in 1..(Len(a_proj.anim.kf[tr]) - 1) :
            a_proj.anim.kf[tr][i].t <= a_proj.anim.kf[tr][i + 1].t

\* C6: after any sequence of keyframe mutations no two keys of a track have
\* times that differ by less than the epsilon 1e-4.
C6_KeysApartByEpsilon ==
    \A tr \in Tracks :
        \A i, j \in 1..Len(a_proj.anim.kf[tr]) :
            i # j => Abs(a_proj.anim.kf[tr][i].t - a_proj.anim.kf[tr][j].t) >= KeyEps

(***************************************************************************)
(* Claims about the render backend of a session (SpecSession)              *)
(***************************************************************************)

\* C11: once GpuRenderer::new has failed in a session, every later frame is
\* rendered by the CPU backend without a GPU renderer, and GpuRenderer::new is
\* not called again.
C11_GpuInitFailureIsPermanent ==
    [][a_init_failed =>
          /\ ~GpuInitAttempted(a_proj.render_backend, a_gpu, a_event')
          /\ a_render'[1].backend = "Cpu"
          /\ a_render'[1].gpu = "None"]_vars

(***************************************************************************)
(* Claims about the functions of the animation (SpecAnimCall)              *)
(***************************************************************************)

\* C12: Animation::advance(dt), dt >= 0, changes nothing when playing is
\* false; when playing it adds dt to t, and if duration > 0 and the new t is
\* >= duration it leaves t mod duration when looping, else t = duration and
\* playing = false; no other field changes.
C12_AdvanceContract ==
    (f_pc = "returned" /\ f_in.fn = "advance") =>
        LET a == f_in.a
            t1 == f_in.a.t + f_in.dt
        IN /\ ~a.playing => f_out = a
           /\ a.playing =>
                 IF a.duration > 0 /\ t1 >= a.duration
                 THEN IF a.looping
                      THEN /\ f_out.playing
                           /\ f_out.t \in 0..(a.duration - 1)
                           /\ \E k \in 1..(t1 \div a.duration) :
                                 t1 = k * a.duration + f_out.t
                      ELSE f_out.t = a.duration /\ ~f_out.playing
                 ELSE f_out.t = t1 /\ f_out.playing
           /\ [f_out EXCEPT !.t = a.t, !.playing = a.playing] = a

\* advance has wrapped a looping clock that had passed the duration more than
\* once
C12_Witness ==
    /\ f_pc = "returned" /\ f_in.fn = "advance"
    /\ f_in.a.playing /\ f_in.a.looping /\ f_in.a.duration > 0
    /\ f_in.a.t + f_in.dt > 2 * f_in.a.duration
    /\ f_out.t > 0 /\ f_out.t < f_in.a.t

\* C13: resolve_times(absolute_t) returns (key_time, zoom_time): with
\* duration <= 0, key_time = 0 and zoom_time = absolute_t when endless zoom is
\* present, else 0; otherwise key_time = absolute_t mod duration when looping,
\* else min(absolute_t, duration), and zoom_time = absolute_t when endless zoom
\* is present, else key_time.  Duration 5, looping, no endless zoom,
\* absolute_t = 12 gives (2, 2).
C13_ResolveTimesContract ==
    (f_pc = "returned" /\ f_in.fn = "resolve_times") =>
        LET d == f_in.a.duration
            t == f_in.absolute_time
            endless == f_in.a.zoom_forever # <<>>
            key_time == f_out[1]
            zoom_time == f_out[2]
        IN /\ d <= 0 =>
                 key_time = 0 /\ zoom_time = (IF endless THEN t ELSE 0)
           /\ d > 0 =>
                 /\ IF f_in.a.looping
                    THEN /\ key_time \in 0..(d - 1)
                         /\ \E k \in 0..(t \div d) : t = k * d + key_time
                    ELSE /\ key_time \in {t, d}
                         /\ key_time <= t /\ key_time <= d
                 /\ zoom_time = (IF endless THEN t ELSE key_time)
           /\ (d = 5 * TicksPerSecond /\ f_in.a.looping /\ ~endless
                 /\ t = 12 * TicksPerSecond) =>
                    f_out = <<2 * TicksPerSecond, 2 * TicksPerSecond>>

\* resolve_times has returned for duration 5, looping, no endless zoom and
\* absolute_t = 12
C13_Witness ==
    /\ f_pc = "returned" /\ f_in.fn = "resolve_times"
    /\ f_in.a.duration = 5 * TicksPerSecond /\ f_in.a.looping
    /\ f_in.a.zoom_forever = <<>>
    /\ f_in.absolute_time = 12 * TicksPerSecond
    /\ f_out[1] = 2 * TicksPerSecond

\* C14: Keyframes::sample(t, default) on a time-sorted track returns default
\* on an empty track, the single key's value on a track of one key, the first
\* key's value for t at or before the first key, the last key's value for t
\* after the last key, and otherwise lerp(prev.v, next.v, ease_prev(u)) with
\* u = (t - prev.t) / (next.t - prev.t) for the bracketing pair, the easing
\* being the one of prev.
C14_SampleContract ==
    (f_pc = "returned" /\ f_in.fn = "sample") =>
        LET keys == f_in.keys
            t == f_in.t
            n == Len(f_in.keys)
        IN IF n = 0 THEN f_out = f_in.default
           ELSE IF n = 1 THEN f_out = keys[1].v
           ELSE IF t <= keys[1].t THEN f_out = keys[1].v
           ELSE IF t > keys[n].t THEN f_out = keys[n].v
           ELSE \E i \in 2..n :
                  /\ keys[i - 1].t < t /\ t <= keys[i].t
                  /\ f_out = Lerp(keys[i - 1].v, keys[i].v,
                                  EasingApply(keys[i - 1].easing,
                                      Rat(t - keys[i - 1].t,
                                          keys[i].t - keys[i - 1].t)))

\* C15: for every key k of a track, Keyframes::sample(k.t, default) returns
\* exactly k.v, whatever the easings and however close the neighbouring keys.
C15_SampleAtKeyReturnsKeyValue ==
    (f_pc = "returned" /\ f_in.fn = "sample") =>
        \A i \in 1..Len(f_in.keys) :
            f_in.keys[i].t = f_in.t => f_out = f_in.keys[i].v

(***************************************************************************)
(* Claims about the palette (SpecPaletteCall)                              *)
(***************************************************************************)

\* C17: normalized_stops applied to a list of zero stops or of exactly one stop
\* returns the built-in default palette of six stops.
C17_FewStopsGiveDefaultPalette ==
    (f_pc = "returned" /\ f_in.fn = "normalized_stops" /\ Len(f_in.stops) <= 1) =>
        /\ f_out[1] = default_palette
        /\ Len(f_out[1]) = 6

\* C18: for every input stop list, whatever the order and the positions of its
\* stops, the result of normalized_stops is sorted by non-decreasing position
\* and contains a stop at position 0 and a stop at position 1.
C18_NormalizedStopsCoverUnitInterval ==
    (f_pc = "returned" /\ f_in.fn = "normalized_stops") =>
        LET out == f_out[1] IN
        /\ \A i \in 1..(Len(out) - 1) : out[i].pos <= out[i + 1].pos
        /\ \E i \in 1..Len(out) : out[i].pos = 0
        /\ \E i \in 1..Len(out) : out[i].pos = PosOne

\* C19: normalized_stops returns a list that is sorted with a stop at 0 and a
\* stop at 1 as it is, and normalized_stops(normalized_stops(s)) =
\* normalized_stops(s) for every list s with positions in [0, 1].
C19_NormalizedStopsIdempotent ==
    (f_pc = "returned" /\ f_in.fn = "normalized_stops") =>
        LET s == f_in.stops IN
        /\ ( /\ \A i \in 1..(Len(s) - 1) : s[i].pos <= s[i + 1].pos
             /\ \E i \in 1..Len(s) : s[i].pos = 0
             /\ \E i \in 1..Len(s) : s[i].pos = PosOne ) => f_out[1] = s
        /\ ( /\ Len(f_out) = 2
             /\ \A i \in 1..Len(s) : s[i].pos >= 0 /\ s[i].pos <= PosOne )
             => f_out[2] = f_out[1]

(***************************************************************************)
(* Claims about the pixel iteration (SpecPixelCall)                        *)
(***************************************************************************)

\* C20: the per-pixel iteration loop ends with an iteration count i in
\* [0, max_iter], and whenever i = max_iter the smooth value the palette is
\* sampled with is exactly 0; Mandelbrot at the plane point (0, 0) with
\* max_iter = 1000 ends with i = 1000 and smooth = 0.
C20_IterationCountAndSmooth ==
    (f_pc = "returned" /\ f_in.fn = "pixel") =>
        /\ f_out.i \in 0..f_in.max_iter
        /\ f_out.i = f_in.max_iter => f_out.smooth = SmoothZero
        /\ (f_in.kind = "Mandelbrot" /\ f_in.point = <<0, 0>>
              /\ f_in.max_iter = 1000) =>
                 f_out.i = 1000 /\ f_out.smooth = SmoothZero

\* the loop of Mandelbrot at (0, 0) with max_iter = 1000 has ended
C20_Witness ==
    /\ f_pc = "returned" /\ f_in.fn = "pixel"
    /\ f_in.kind = "Mandelbrot" /\ f_in.point = <<0, 0>>
    /\ f_in.max_iter = 1000 /\ f_out.i = 1000

(***************************************************************************)
(* Claims about the export loop (SpecExport)                               *)
(***************************************************************************)

\* the camera is at the repeating spot
AtRepeatingSpot(camera) ==
    /\ camera.center_re = SpotCenterRe /\ camera.center_im = SpotCenterIm
    /\ camera.rotation = SpotRotation

\* C16: in every frame rendered while endless zoom is present with
\* lock_repeating_spot = true, by the live preview and by the export alike,
\* the camera handed to render_image has the center and the rotation of the
\* repeating spot; and right after the lock is engaged or re-centered,
\* zoom.start_scale equals camera.scale.
C16_LockedFramesAtRepeatingSpot ==
    /\ (a_event.kind \in {"lock", "recenter"}
           /\ IsRepeatingSpotLocked(a_proj.anim)) =>
          a_proj.anim.zoom_forever[1].start_scale = a_proj.camera.scale
    /\ (a_render # <<>> /\ a_event.kind \in ClockKeeping
           /\ IsRepeatingSpotLocked(a_proj.anim)) =>
          AtRepeatingSpot(a_render[1].camera)
    /\ IsRepeatingSpotLocked(e_proj.anim) =>
          \A i \in 1..Len(e_rendered) : AtRepeatingSpot(e_rendered[i].camera)

\* the number a sequence of decimal digits denotes
RECURSIVE DigitsValue(_)
DigitsValue(ds) ==
    IF Len(ds) = 0 THEN 0
    ELSE 10 * DigitsValue(SubSeq(ds, 1, Len(ds) - 1)) + ds[Len(ds)]

\* C7: the export renders the frames 0, 1, 2, ... in order, frame f at
\* t = f / fps, and writes frame f as frame_<f in 6 digits>.png; when the loop
\* is over (the encoder is invoked) exactly round(duration * fps) frames were
\* rendered and written; a 1-second, 10-fps export renders exactly 10 frames,
\* at 0.0, 0.1, ..., 0.9 s, and none at 1.0 s.
C7_ExportRendersRoundDurationFpsFrames ==
    LET fps == e_proj.export.fps
        x2 == 2 * e_proj.export.duration * fps
        k == Len(e_rendered)
    IN /\ Len(e_written) <= k
       /\ \A i \in 1..k :
            /\ e_rendered[i].frame = i - 1
            /\ e_rendered[i].time * fps = (i - 1) * TicksPerSecond
       /\ \A i \in 1..Len(e_written) :
            /\ e_written[i][1] = "frame_" /\ e_written[i][3] = ".png"
            /\ Len(e_written[i][2]) = 6
            /\ DigitsValue(e_written[i][2]) = i - 1
       /\ e_encoder # <<>> =>
            /\ Len(e_written) = k
            /\ IF x2 <= 0 THEN k = 0
               ELSE (2 * k - 1) * TicksPerSecond <= x2
                    /\ x2 < (2 * k + 1) * TicksPerSecond
       /\ (e_proj.export.duration = TicksPerSecond /\ fps = 10) =>
            /\ k <= 10
            /\ \A i \in 1..k : 10 * e_rendered[i].time = (i - 1) * TicksPerSecond
            /\ e_encoder # <<>> => k = 10

\* a 1-second, 10-fps export has written its 10 frames and encoded them
C7_Witness ==
    /\ e_result = "Ok" /\ e_proj.export.duration = TicksPerSecond
    /\ e_proj.export.fps = 10 /\ Len(e_written) = 10
    /\ e_rendered[10].time = 9 * (TicksPerSecond \div 10)

\* C8: once the save of frame f has failed, the export has returned, with an
\* error that is ExportError::Image and not ExportError::Ffmpeg; no frame after
\* f was rendered or written and the encoder was not invoked.
C8_WriteFailureAbortsExport ==
    \A f \in e_failed :
        /\ e_pc = "returned"
        /\ e_result = "Image"
        /\ e_result # "Ffmpeg"
        /\ e_encoder = <<>>
        /\ \A i \in 1..Len(e_rendered) : e_rendered[i].frame <= f
        /\ Len(e_written) = f

\* the save of a frame after the first has failed
C8_Witness ==
    /\ e_pc = "returned" /\ \E f \in e_failed : f >= 2
    /\ e_total > 3

\* C9 as stated: every export that returns has invoked the encoder exactly once.
C9_EncoderExactlyOncePerExport ==
    e_pc = "returned" => Len(e_encoder) = 1

\* C9, amended: the encoder is invoked at most once per export, only after every
\* frame has been written, and exactly once unless the temporary directory or a
\* frame image could not be written; the export returns Ok exactly when the
\* encoder was spawned and exited with success, and ExportError::Ffmpeg when it
\* could not be spawned or exited with a non-zero status.
C9_EncoderOnceAfterAllFrames ==
    /\ Len(e_encoder) <= 1
    /\ e_encoder # <<>> =>
         /\ e_pc = "returned"
         /\ e_failed = {}
         /\ Len(e_written) = e_total
         /\ e_encoder[1].inputs = e_written
         /\ e_result = (IF e_encoder[1].status = "exit_success" THEN "Ok" ELSE "Ffmpeg")
    /\ e_pc = "returned" =>
         /\ (Len(e_encoder) = 1) <=> (e_failed = {} /\ e_result # "Io")
         /\ e_result = "Ok" => e_encoder # <<>>

\* an export of several frames has run the encoder, which exited with an error
C9_Witness ==
    /\ e_pc = "returned" /\ Len(e_written) >= 2 /\ Len(e_encoder) = 1
    /\ e_encoder[1].status = "exit_nonzero" /\ e_result = "Ffmpeg"

(***************************************************************************)
(* Claims about Animation::sample_zoom (SpecZoomCall)                      *)
(***************************************************************************)

\* a < b for two numbers q * F^(e / TicksPerSecond) of one positive q and one
\* factor F, whatever the factor: below 1 the larger power is the smaller
\* number, above 1 the larger power is the larger number
FactorLess(a, b) ==
    LET f == IF a.e # 0 THEN a.f ELSE b.f IN
    /\ a.q = b.q /\ RLess(RZero, a.q)
    /\ \/ f < SpeedOne /\ a.e > b.e
       \/ f > SpeedOne /\ a.e < b.e

\* v = start_scale * factor^max(t, 0), the factor being a speed of
\* [0.5, 0.995] (the stored speed if it is in the range, else the nearer end)
\* or, reversed, its reciprocal
IsZoomValue(v, zoom, t) ==
    /\ v.q = zoom.start_scale.q
    /\ v.e = zoom.start_scale.e + (IF zoom.reverse THEN -1 ELSE 1) * Max(t, 0)
    /\ v.e # 0 =>
          /\ v.f \in SpeedMin..SpeedMax
          /\ zoom.speed \in SpeedMin..SpeedMax => v.f = zoom.speed
          /\ zoom.speed < SpeedMin => v.f = SpeedMin
          /\ zoom.speed > SpeedMax => v.f = SpeedMax

FrameBytes(size) ==
    WideMul(WideMul(ToDigits(size[1]), ToDigits(size[2])),
            ToDigits(BytesPerPixel))

\* C22: for every output size, render_image returns a buffer of exactly
\* width * height * 4 bytes: its allocation and the blits of its tiles do not
\* panic, and the 32-bit products of the buffer length and of the destination
\* offsets do not wrap, also for frames of 2^32 bytes and more.
C22_FrameLengthNeverWraps ==
    (f_in.fn = "render_image" /\ f_pc # "idle") =>
        /\ f_out.status \in {"tiles", "done"}
        /\ f_out.len = FrameBytes(f_in.size)

(***************************************************************************)
(* Claims about Easing::apply (SpecEasingCall)                             *)
(***************************************************************************)

\* C23: each of the five easing kinds maps 0 to 0 and 1 to 1 and every input
\* of [0, 1] to an output of [0, 1], and EaseInOut maps 0.5 to 0.5.
C23_EasingsMapUnitInterval ==
    (f_pc = "returned" /\ f_in.fn = "apply") =>
        /\ f_in.t = RZero => f_out = RZero
        /\ f_in.t = ROne => f_out = ROne
        /\ (RLeq(RZero, f_in.t) /\ RLeq(f_in.t, ROne)) =>
              (RLeq(RZero, f_out) /\ RLeq(f_out, ROne))
        /\ (f_in.easing = "EaseInOut" /\ f_in.t = Rat(1, 2)) =>
              f_out = Rat(1, 2)

\* EaseInOut was applied to 0.5 and returned 0.5
C23_Witness ==
    /\ f_pc = "returned" /\ f_in.fn = "apply"
    /\ f_in.easing = "EaseInOut" /\ f_in.t = Rat(1, 2)
    /\ f_out = Rat(1, 2)

(***************************************************************************)
(* Claims about sample_palette (SpecSamplePalette)                         *)
(***************************************************************************)

\* round(x) of a rational x >= 0: the nearest integer, a half rounding up
RoundNat(x) == (2 * x[1] + x[2]) \div (2 * x[2])

\* C24: sample_palette(lut, t) returns the entry of index
\* round((len - 1) * clamp(t, 0, 1)), the nearest index, for every t and every
\* non-empty LUT; the index is within [0, len - 1].
C24_SamplePaletteNearestIndex ==
    (f_pc = "returned" /\ f_in.fn = "sample_palette") =>
        LET len == Len(f_in.lut)
            idx == RoundNat(RMul(RInt(len - 1), RClamp(f_in.t, RZero, ROne)))
        IN /\ idx \in 0..(len - 1)
           /\ f_out = f_in.lut[idx + 1]

(***************************************************************************)
(* Claims about the project during an export (SpecExport)                  *)
(***************************************************************************)

\* the step renders a frame
RendersFrame == Len(e_rendered') = Len(e_rendered) + 1

\* C25: export_video_blocking never calls Animation::advance and never changes
\* the caller's project: no step of an export, successful or failed, changes
\* the project (clock t, playing flag, camera, parameters, keyframe tracks),
\* and each frame is sampled from a copy of the project taken for that frame,
\* at the time of the frame: what is not animated is the caller's value.
C25_ExportLeavesProjectUnchanged ==
    [][/\ e_proj' = e_proj
       /\ RendersFrame =>
            LET c == e_rendered'[Len(e_rendered')]
                time == FrameTime(e_frame, e_proj.export.fps)
                times == ResolveTimes(e_proj.anim, time)
            IN /\ c.frame = e_frame /\ c.time = time
               /\ c.camera.rotation = e_proj.camera.rotation
               /\ c.camera.scale =
                     SampleZoom(e_proj.anim, times[2], e_proj.camera.scale)
               /\ c.palette_phase =
                     KfSample(e_proj.anim.kf["Palette"], times[1],
                              e_proj.palette_phase)
               /\ c.camera.center_re =
                     KfSample(e_proj.anim.kf["CenterX"], times[1],
                              e_proj.camera.center_re)
               /\ c.camera.center_im =
                     KfSample(e_proj.anim.kf["CenterY"], times[1],
                              e_proj.camera.center_im)]_vars

\* an export of a playing project whose clock is at 0.25 s has returned after
\* two frames or more, the second with another scale than the project's, and
\* the project still plays with its clock at 0.25 s
C25_Witness ==
    /\ e_pc = "returned" /\ e_result \in {"Ok", "Ffmpeg"}
    /\ Len(e_rendered) >= 2
    /\ e_rendered[2].camera.scale # e_proj.camera.scale
    /\ e_proj.anim.playing /\ e_proj.anim.t = TicksPerSecond \div 4

(***************************************************************************)
(* Claims about the selected key (SpecSelection)                           *)
(***************************************************************************)

\* the selection of the animation is none or names a key of its track
SelectionInBounds(anim) ==
    anim.selection # <<>> =>
        anim.selection[1].index \in 1..Len(anim.kf[anim.selection[1].track])

\* the update removes the key the selection names: by a right click on it, by
\* the Delete key button, or by the preset that clears the zoom track
SelectedKeyRemoved ==
    /\ a_proj.anim.selection # <<>>
    /\ SelectionInBounds(a_proj.anim)
    /\ LET sel == a_proj.anim.selection[1] IN
       \/ /\ a_event'.kind = "key_secondary"
          /\ a_event'.track = sel.track /\ a_event'.idx = sel.index
       \/ a_event'.kind = "delete_key"
       \/ a_event'.kind = "preset" /\ sel.track = "Zoom"

\* C26: whenever the key the selection names is removed (right click on it in
\* its row, the Delete key button, the endless-zoom preset clearing the zoom
\* track), the selection is None at the end of that timeline_ui pass; and at
\* the end of every pass a present selection's index is within its track.
C26_RemovedSelectionIsCleared ==
    [][/\ SelectedKeyRemoved => a_proj'.anim.selection = <<>>
       /\ SelectionInBounds(a_proj'.anim)]_vars

\* the Delete key button has removed the selected key of the palette track,
\* and no selection is left
C26_Witness ==
    /\ a_event.kind = "delete_key"
    /\ Len(a_proj.anim.kf["Palette"]) < Len(SelectionTracks["Palette"])
    /\ a_proj.anim.selection = <<>>

(***************************************************************************)
(* Claims about blit_tile (SpecRender)                                     *)
(***************************************************************************)

\* the step is an iteration of the loop of render_image: tile r_next is
\* rendered and blitted
BlitsTile == r_pc = "tiles" /\ r_next' = r_next + 1

\* the pixels of columns lo .. hi - 1 of row y of a frame
RowPart(frame, full_width, y, lo, hi) ==
    SubSeq(frame, y * full_width + lo + 1, y * full_width + hi)

\* what the blit of tile t, of pixels tile_pixels, made of the frame: in the
\* frame rows of the tile, columns offset_x .. offset_x + tile_w hold the row
\* of the tile and had not been written, and the columns before and after are
\* as they were; the other rows are as they were
BlitEffect(before, after, full_width, t, tile_pixels) ==
    /\ Len(after) = Len(before)
    /\ \A y \in 0..((Len(before) \div full_width) - 1) :
          IF t.offset_y <= y /\ y < t.offset_y + t.tile_h
          THEN /\ RowPart(after, full_width, y, t.offset_x, t.offset_x + t.tile_w)
                    = RowPart(tile_pixels, t.tile_w, y - t.offset_y, 0, t.tile_w)
               /\ RowPart(before, full_width, y, t.offset_x, t.offset_x + t.tile_w)
                    = [k \in 1..t.tile_w |-> ZeroPixel]
               /\ RowPart(after, full_width, y, 0, t.offset_x)
                    = RowPart(before, full_width, y, 0, t.offset_x)
               /\ RowPart(after, full_width, y, t.offset_x + t.tile_w, full_width)
                    = RowPart(before, full_width, y, t.offset_x + t.tile_w,
                              full_width)
          ELSE RowPart(after, full_width, y, 0, full_width)
                  = RowPart(before, full_width, y, 0, full_width)

\* C27: blit_tile copies row ty of the tile's pixels to the frame row
\* offset_y + ty, columns offset_x .. offset_x + tile_w, for every ty < tile_h,
\* and leaves everything outside that rectangle unchanged; once render_image
\* has blitted all tiles every pixel of the frame has been written exactly
\* once: no blit writes a pixel written before, and none is left unwritten.
C27_BlitWritesItsRectangleOnce ==
    [][/\ BlitsTile =>
            \A before \in {Flat(r_frame)}, after \in {Flat(r_frame')},
               tile_pixels \in {IF r_log'[r_next] = "gpu"
                                THEN gpu_render_ok(r_tiles[r_next])
                                ELSE render_fractal_cpu(r_tiles[r_next])} :
                BlitEffect(before, after, r_size[1], r_tiles[r_next], tile_pixels)
       /\ r_pc' = "done" =>
            \A p \in 1..Len(r_frame') : \A j \in 1..Len(r_frame'[p]) :
                r_frame'[p][j] # ZeroPixel]_vars

\* render_image has returned a frame of several rows of tiles, rendered by the
\* GPU and, after a failure, the CPU
C27_Witness ==
    /\ r_pc = "done" /\ Len(r_tiles) >= 2
    /\ r_tiles[Len(r_tiles)].offset_y > 0
    /\ r_tiles[Len(r_tiles)].tile_h < r_tiles[1].tile_h
    /\ "gpu" \in {r_log[i] : i \in 1..Len(r_log)}
    /\ "gpu_err_cpu" \in {r_log[i] : i \in 1..Len(r_log)}

(***************************************************************************)
(* Claims about Keyframes::upsert (SpecUpsertCall)                         *)
(***************************************************************************)

\* the number of keys of a track equal to k
KeyCount(keys, k) == Cardinality({i \in 1..Len(keys) : keys[i] = k})

\* C28: upsert(t, v), when some key's time is within 1e-4 of t, replaces that
\* key's value with v and leaves the number of keys and every key's time and
\* easing unchanged; otherwise it adds exactly one key (t, v, Linear) and
\* leaves the values, times and easings of the existing keys unchanged: the
\* keys of the result are the existing keys and the new one.
C28_UpsertContract ==
    (f_pc = "returned" /\ f_in.fn = "upsert") =>
        LET keys == f_in.keys
            new == Key(f_in.t, f_in.v, "Linear")
        IN IF \E i \in 1..Len(keys) : Abs(keys[i].t - f_in.t) < KeyEps
           THEN /\ Len(f_out) = Len(keys)
                /\ \A i \in 1..Len(keys) :
                      f_out[i].t = keys[i].t /\ f_out[i].easing = keys[i].easing
                /\ \E i \in 1..Len(keys) :
                      /\ Abs(keys[i].t - f_in.t) < KeyEps
                      /\ f_out = [keys EXCEPT ![i].v = f_in.v]
           ELSE /\ Len(f_out) = Len(keys) + 1
                /\ \A i \in 1..Len(f_out) :
                      KeyCount(f_out, f_out[i]) =
                          KeyCount(keys, f_out[i])
                              + (IF f_out[i] = new THEN 1 ELSE 0)

\* upsert was called at a time one tick away from the time of a key that is
\* not Linear, and that key has the new value, its own time and its own easing
C28_Witness ==
    /\ f_pc = "returned" /\ f_in.fn = "upsert"
    /\ \E i \in 1..Len(f_in.keys) :
          /\ Abs(f_in.keys[i].t - f_in.t) = 1
          /\ f_out[i].v = f_in.v /\ f_in.keys[i].v # f_in.v
          /\ f_out[i].t = f_in.keys[i].t /\ f_out[i].easing = "SmoothStep"

(***************************************************************************)
(* Claims about the selected key while its track is edited (SpecKeyEdit)   *)
(***************************************************************************)

\* the update edits the track of the selected key without removing that key:
\* a right click on another key, a double click on the row that inserts a key
\* before the selected one, or a drag of a key
EditsAroundSelection ==
    /\ a_proj.anim.selection # <<>>
    /\ SelectionInBounds(a_proj.anim)
    /\ LET sel == a_proj.anim.selection[1]
           keys == a_proj.anim.kf[sel.track]
       IN /\ a_event'.track = sel.track
          /\ \/ a_event'.kind = "key_secondary" /\ a_event'.idx # sel.index
             \/ /\ a_event'.kind = "row_double"
                /\ RelTime(a_event'.rel, a_proj.anim.duration) < keys[sel.index].t
                /\ Len(a_proj'.anim.kf[sel.track]) = Len(keys) + 1
             \/ a_event'.kind = "key_drag"

\* C29: a present selection keeps referring to the key the user selected:
\* after the removal of another key of its track, the insertion of a key at
\* an earlier time, or a drag of keys of the track, the selection's
\* (track, index) denotes the same key, of the same value and easing.
C29_SelectionFollowsItsKey ==
    [][EditsAroundSelection =>
          /\ a_proj'.anim.selection # <<>>
          /\ SelectionInBounds(a_proj'.anim)
          /\ LET sel == a_proj.anim.selection[1]
                 sel1 == a_proj'.anim.selection[1]
                 key == a_proj.anim.kf[sel.track][sel.index]
                 key1 == a_proj'.anim.kf[sel1.track][sel1.index]
             IN /\ sel1.track = sel.track
                /\ key1.v = key.v /\ key1.easing = key.easing]_vars

(***************************************************************************)
(* Claims about the animation clock (SpecClock)                            *)
(***************************************************************************)

\* the advance of this update wraps the looping clock
AdvanceWraps ==
    /\ a_event'.kind = "none"
    /\ a_proj.anim.playing /\ a_proj.anim.looping /\ a_proj.anim.duration > 0
    /\ a_proj.anim.t + TimelineTick >= a_proj.anim.duration

\* C30: starting from t = 0 with duration > 0, after any sequence of advances,
\* timeline scrubbing, Restart, Play/Pause, the endless-zoom preset and
\* duration changes through the slider, the clock satisfies
\* 0 <= t <= duration, and t < duration after every advance that wrapped
\* while looping.
C30_ClockWithinDuration ==
    [][/\ 0 <= a_proj'.anim.t /\ a_proj'.anim.t <= a_proj'.anim.duration
       /\ AdvanceWraps => a_proj'.anim.t < a_proj'.anim.duration]_vars

(***************************************************************************)
(* Specifications                                                          *)
(***************************************************************************)

\* one call of render_image
InitRender == RenderInit /\ ExportIdle /\ AppIdle /\ CallIdle
SpecRender == InitRender /\ [][RenderNext]_vars

\* one call of export_video_blocking
InitExport == ExportInit /\ RenderIdle /\ AppIdle /\ CallIdle
SpecExport == InitExport /\ [][ExportNext]_vars

InitPlayback == PlaybackInit /\ RenderIdle /\ ExportIdle /\ CallIdle
SpecPlayback == InitPlayback /\ [][PlaybackNext]_vars

InitTimeline == TimelineInit /\ RenderIdle /\ ExportIdle /\ CallIdle
SpecTimeline == InitTimeline /\ [][TimelineNext]_vars

InitSession == SessionInit /\ RenderIdle /\ ExportIdle /\ CallIdle
SpecSession == InitSession /\ [][SessionNext]_vars

\* one call of Animation::advance, Animation::resolve_times or Keyframes::sample
InitAnimCall == AnimCallInit /\ RenderIdle /\ ExportIdle /\ AppIdle
SpecAnimCall == InitAnimCall /\ [][AnimCallNext]_vars

\* normalized_stops, and normalized_stops on its result
InitPaletteCall == PaletteCallInit /\ RenderIdle /\ ExportIdle /\ AppIdle
SpecPaletteCall == InitPaletteCall /\ [][PaletteCallNext]_vars

\* the iteration of one pixel of render_fractal_cpu
InitPixelCall == PixelCallInit /\ RenderIdle /\ ExportIdle /\ AppIdle
SpecPixelCall == InitPixelCall /\ [][PixelCallNext]_vars

\* two calls of Animation::sample_zoom on one animation
InitZoomCall == ZoomCallInit /\ RenderIdle /\ ExportIdle /\ AppIdle
SpecZoomCall == InitZoomCall /\ [][ZoomCallNext]_vars

\* one call of render_image on a large frame: the buffer arithmetic only
InitLargeFrame == LargeFrameInit /\ RenderIdle /\ ExportIdle /\ AppIdle
SpecLargeFrame == InitLargeFrame /\ [][LargeFrameNext]_vars

\* one call of Easing::apply
InitEasingCall == EasingCallInit /\ RenderIdle /\ ExportIdle /\ AppIdle
SpecEasingCall == InitEasingCall /\ [][EasingCallNext]_vars

\* one call of sample_palette
InitSamplePalette == SamplePaletteInit /\ RenderIdle /\ ExportIdle /\ AppIdle
SpecSamplePalette == InitSamplePalette /\ [][SamplePaletteNext]_vars

\* the timeline while keys are selected, moved, inserted and removed
InitSelection == SelectionInit /\ RenderIdle /\ ExportIdle /\ CallIdle
SpecSelection == InitSelection /\ [][SelectionNext]_vars

\* one call of Keyframes::upsert
InitUpsertCall == UpsertCallInit /\ RenderIdle /\ ExportIdle /\ AppIdle
SpecUpsertCall == InitUpsertCall /\ [][UpsertCallNext]_vars

\* the timeline while the keys of the selected key's track are edited
InitKeyEdit == KeyEditInit /\ RenderIdle /\ ExportIdle /\ CallIdle
SpecKeyEdit == InitKeyEdit /\ [][KeyEditNext]_vars

\* the application while the clock is played, scrubbed and the duration changed
InitClock == ClockInit /\ RenderIdle /\ ExportIdle /\ CallIdle
SpecClock == InitClock /\ [][ClockNext]_vars

====
